---- MODULE Spec2Model ----
(***************************************************************************)
(* Tenant deployment orchestrator of pluto: the start / progress handlers  *)
(* of src/main.ts, the step pipeline of DeploymentService.deployTenant,    *)
(* the audit table of DynamoDBService and the commit retry / drain poll    *)
(* of ChangeSetService.applyChangeSet.                                     *)
(*                                                                         *)
(* deployTenant is an async function: between two awaits it runs without   *)
(* interruption, at an await any other deployment may run.  One action of  *)
(* the pipeline is the code from the resolution of one external call to    *)
(* the issue of the next; an updateProgress call (push, audit write,       *)
(* callback) is taken whole.                                               *)
(***************************************************************************)
EXTENDS Integers, Sequences, FiniteSets, TLC

\* ------------------------------------------------------------------ bounds
\* Number of start requests that may be in flight together.
NumDeployments == 2
\* Number of audit-table calls that may fail in one behaviour.
MaxStoreFaults == 1
\* Longest a forceApply or mergeStatus call may take, in seconds.
MaxLatency == 1
\* Number of updateProgress calls followed with their timestamps.
MaxRecords == 2
\* The time, in clock ticks since the server started, up to which the
\* timestamps are followed.
MaxClock == 10

Deployments == 1..NumDeployments

\* ------------------------------------------------------------------ values
\* crypto.randomUUID(): a value that never repeats.  Call site k of request d
\* (1: main.ts:123, 2: deployment.ts:46, 3: deployment.ts:68).
RandomUUID(d, k) == (d - 1) * 3 + k

\* The deploymentId of the start handler, the deploymentId deployTenant
\* generates for itself, and the environmentUuid.
MainId(d) == RandomUUID(d, 1)

SvcId(d) == RandomUUID(d, 2)

EnvironmentUuid(d) == RandomUUID(d, 3)

AllUuids == {RandomUUID(d, k) : d \in Deployments, k \in 1..3}

\* Error messages of the collaborators (error.message, result.error).
Errors == {"e1"}

NoError == "none"

\* Values of the process-wide SI_API_TOKEN: unset, set to the empty string,
\* the operator's token, or the token of the workspace created for request d.
Unset == "unset"

EmptyToken == ""

RootToken == "root-token"

WorkspaceToken(d) == "ws-token-" \o ToString(d)

\* body.accountName of request d: requests differ in their account name.
AccountName(d) == "acct-" \o ToString(d)

NoChangeSet == "undefined"

NoAccountId == "null"

NoWorkspaceData == "null"

\* ------------------------------------------------------------------ state
VARIABLES
  pc,                 \* position of each deployTenant call (and its handler)
  progress,           \* deployTenant's local progress array
  changeSetId,        \* deployTenant's local changeSetId
  workspaceData,      \* deployTenant's local workspaceData (its token) or "null"
  awsAccountId,       \* deployTenant's local awsAccountId
  originalToken,      \* the vpc-template step's saved SI_API_TOKEN
  applyResult,        \* what applyChangeSet resolved with, while the apply step waits
  result,             \* what deployTenant resolved with
  env,                \* Deno.env SI_API_TOKEN, process-wide
  envAtBoot,          \* SI_API_TOKEN as it was before any deployment started
  deploymentProgress, \* main.ts: Map deploymentId -> progress entry
  tenants,            \* the pluto-tenants table: deploymentId -> item
  faultsLeft,         \* audit-table calls that may still fail in this behaviour
  call,               \* the applyChangeSet call followed in detail (SpecApply)
  extraction,         \* the extractTokenWithPolling call followed in detail (SpecExtract)
  recorder,           \* updateProgress calls followed with their timestamps (SpecRecorder)
  accountPoll,        \* the account-id poll of step 7 followed in detail (SpecAccount)
  hold                \* one disableComponentActions call followed in detail (SpecHold)

vars == <<pc, progress, changeSetId, workspaceData, awsAccountId, originalToken,
          applyResult, result, env, envAtBoot, deploymentProgress, tenants, faultsLeft,
          call, extraction, recorder, accountPoll, hold>>

\* The calls followed in detail; the pipeline actions leave them alone.
calls == <<call, extraction, recorder, accountPoll, hold>>

\* ------------------------------------------------------------------ maps
MapSet(m, k, v) == [x \in (DOMAIN m) \cup {k} |-> IF x = k THEN v ELSE m[x]]

MapDelete(m, k) == [x \in (DOMAIN m) \ {k} |-> m[x]]

EmptyMap == [x \in {} |-> 0]

\* ------------------------------------------------------------------ records
StepRecord(step, status, message) ==
  [step |-> step, status |-> status, message |-> message]

\* A template literal: the text with the value interpolated into it.
Msg(text, arg) == text \o arg

NoResult == [returned |-> FALSE]

\* ServiceResult of applyChangeSet: not called, awaited, or resolved.
NoCall == [state |-> "none", success |-> FALSE, error |-> NoError]

Pending == [state |-> "pending", success |-> FALSE, error |-> NoError]

ServiceResult(success, error) == [state |-> "resolved", success |-> success, error |-> error]

DeploymentResult(success, error, cs, withId) ==
  [returned |-> TRUE, success |-> success, error |-> error,
   changeSetId |-> cs, hasDeploymentId |-> withId]

\* ------------------------------------------------------------------ store
\* DynamoDBService.createTenantDeployment: the item put when the call succeeds.
NewTenantItem ==
  [status |-> "started", currentStep |-> "initialize", steps |-> <<>>,
   endTime |-> FALSE, error |-> NoError]

\* A variant of updateTenantDeploymentStep that appends the step and leaves
\* currentStep as it was.
UpdateTenantDeploymentStepStale(table, id, rec, ok) ==
  IF ok /\ id \in DOMAIN table
    THEN [table EXCEPT ![id] =
            [status |-> rec.status,
             currentStep |-> @.currentStep,
             steps |-> Append(@.steps, rec),
             endTime |-> IF rec.status \in {"completed", "failed"} THEN TRUE ELSE @.endTime,
             error |-> IF rec.status = "failed" THEN rec.message ELSE @.error]]
    ELSE table

\* DynamoDBService.updateTenantDeploymentStep, as a function of the table:
\* read the item, append the step, put the item back.  ok = FALSE is a call
\* (the get or the put) that throws: the catch returns {success:false} and the
\* table is as before.  With no item read, the put carries no deploymentId key
\* and is rejected by the table, which ends in the same catch.
UpdateTenantDeploymentStep(table, id, rec, ok) ==
  IF ok /\ id \in DOMAIN table
    THEN [table EXCEPT ![id] =
            [status |-> rec.status,
             currentStep |-> rec.step,
             steps |-> Append(@.steps, rec),
             endTime |-> IF rec.status \in {"completed", "failed"} THEN TRUE ELSE @.endTime,
             error |-> IF rec.status = "failed" THEN rec.message ELSE @.error]]
    ELSE table

\* DynamoDBService.getTenantDeployment: the deployment read from the item, or
\* null when the table holds no item under the id.
GetTenantDeployment(id) ==
  IF id \in DOMAIN tenants
    THEN [found |-> TRUE, status |-> tenants[id].status,
          currentStep |-> tenants[id].currentStep, steps |-> tenants[id].steps,
          endTime |-> tenants[id].endTime, error |-> tenants[id].error]
    ELSE [found |-> FALSE, status |-> "", currentStep |-> "", steps |-> <<>>,
          endTime |-> FALSE, error |-> NoError]

\* GET /api/deploy-tenant/progress/:deploymentId
GetProgress(id) ==
  IF id \in DOMAIN deploymentProgress
    THEN [success |-> TRUE,
          completed |-> deploymentProgress[id].completed,
          deploymentSuccess |-> deploymentProgress[id].success,
          error |-> deploymentProgress[id].error,
          progress |-> deploymentProgress[id].progress]
    ELSE [success |-> FALSE, error |-> "Deployment not found"]

\* ------------------------------------------------------------------ pipeline
\* A variant of the progress callback of main.ts:147-152 that keeps only the
\* newest record in the map entry.
UpdateProgressNewestOnly(d, step, status, message, ok) ==
  LET rec == StepRecord(step, status, message)
      list == Append(progress[d], rec)
  IN /\ ok \/ faultsLeft > 0
     /\ progress' = [progress EXCEPT ![d] = list]
     /\ tenants' = UpdateTenantDeploymentStep(tenants, SvcId(d), rec, ok)
     /\ faultsLeft' = IF ok THEN faultsLeft ELSE faultsLeft - 1
     /\ deploymentProgress' =
          IF MainId(d) \in DOMAIN deploymentProgress
            THEN [deploymentProgress EXCEPT ![MainId(d)].progress = <<rec>>]
            ELSE deploymentProgress

\* The updateProgress closure of deployTenant: push the record, write it to the
\* audit table (the result of the write is not looked at), hand a copy of the
\* list to the progress callback of the start handler.
UpdateProgress(d, step, status, message, ok) ==
  LET rec == StepRecord(step, status, message)
      list == Append(progress[d], rec)
  IN /\ ok \/ faultsLeft > 0
     /\ progress' = [progress EXCEPT ![d] = list]
     /\ tenants' = UpdateTenantDeploymentStep(tenants, SvcId(d), rec, ok)
     /\ faultsLeft' = IF ok THEN faultsLeft ELSE faultsLeft - 1
     /\ deploymentProgress' =
          IF MainId(d) \in DOMAIN deploymentProgress
            THEN [deploymentProgress EXCEPT ![MainId(d)].progress = list]
            ELSE deploymentProgress

\* return { success: false, error, changeSetId, progress }
ReturnFailure(d, error, cs) ==
  /\ result' = [result EXCEPT ![d] = DeploymentResult(FALSE, error, cs, FALSE)]
  /\ pc' = [pc EXCEPT ![d] = "returned"]

Goto(d, label) == pc' = [pc EXCEPT ![d] = label]

\* A step that only appends a record and moves on leaves these alone.
locals == <<changeSetId, workspaceData, awsAccountId, originalToken, applyResult>>

\* POST /api/deploy-tenant/start, main.ts:108-131.  A missing configId or a
\* missing or blank accountName: an error response and nothing else.  No
\* SI_WORKSPACE_ID: an error response too.  Otherwise the handler asks the
\* store for the workspace token and waits for the answer.
StartDeployment(d) ==
  /\ pc[d] = "idle"
  /\ \E configId \in {"", "cfg-1"}, accountName \in {"", "  ", AccountName(d)},
        workspaceId \in {"", "ws-root"} :
       IF configId = "" \/ accountName \in {"", "  "}
         THEN Goto(d, "rejected")
         ELSE IF workspaceId = ""
                THEN Goto(d, "unconfigured")
                ELSE Goto(d, "lookup")
  /\ UNCHANGED <<locals, progress, result, env, envAtBoot, calls, deploymentProgress,
                 tenants, faultsLeft>>

\* A variant of the handler that validates the request only after the token
\* lookup.
GetWorkspaceTokenMissingUnvalidated(d) ==
  /\ pc[d] = "lookup"
  /\ Goto(d, "rejected")
  /\ UNCHANGED <<locals, progress, result, env, envAtBoot, calls, deploymentProgress,
                 tenants, faultsLeft>>

\* main.ts:131-134: getWorkspaceToken found no token (or failed, which it
\* reports as null): an error response.
GetWorkspaceTokenMissing(d) ==
  /\ pc[d] = "lookup"
  /\ Goto(d, "unavailable")
  /\ UNCHANGED <<locals, progress, result, env, envAtBoot, calls, deploymentProgress,
                 tenants, faultsLeft>>

\* main.ts:136-147: the token is there; the map entry is created and
\* deployTenant is called with the trimmed name; it runs to its first await
\* (getConfigById).
GetWorkspaceTokenFound(d) ==
  /\ pc[d] = "lookup"
  /\ deploymentProgress' = MapSet(deploymentProgress, MainId(d),
       [completed |-> FALSE, success |-> FALSE, error |-> "null", progress |-> <<>>])
  /\ Goto(d, "create")
  /\ UNCHANGED <<locals, progress, result, env, envAtBoot, calls, tenants, faultsLeft>>

\* The start handler after its validation.
StartLookup(d) == GetWorkspaceTokenMissing(d) \/ GetWorkspaceTokenFound(d)

\* getConfigById has answered; createTenantDeployment puts the item, or fails
\* and returns {success:false}, which deployTenant does not look at.
CreateTenantDeployment(d) ==
  /\ pc[d] = "create"
  /\ \E ok \in BOOLEAN :
       /\ ok \/ faultsLeft > 0
       /\ tenants' = IF ok THEN MapSet(tenants, SvcId(d), NewTenantItem) ELSE tenants
       /\ faultsLeft' = IF ok THEN faultsLeft ELSE faultsLeft - 1
  /\ Goto(d, "initialize")
  /\ UNCHANGED <<locals, progress, result, env, envAtBoot, calls, deploymentProgress>>

\* Step 1, deployment.ts:67.
InitializeBegin(d) ==
  /\ pc[d] = "initialize"
  /\ \E ok \in BOOLEAN :
       UpdateProgress(d, "initialize", "in_progress", "Initializing deployment...", ok)
  /\ Goto(d, "initialize_run")
  /\ UNCHANGED <<locals, result, env, envAtBoot, calls>>

\* deployment.ts:68-70.
InitializeEnd(d) ==
  /\ pc[d] = "initialize_run"
  /\ \E ok \in BOOLEAN :
       UpdateProgress(d, "initialize", "completed",
                      Msg("Generated deployment ID: ", ToString(EnvironmentUuid(d))), ok)
  /\ Goto(d, "changeset")
  /\ UNCHANGED <<locals, result, env, envAtBoot, calls>>

\* Step 2, deployment.ts:73-75: the record, then the createChangeSet call.
ChangesetBegin(d) ==
  /\ pc[d] = "changeset"
  /\ \E ok \in BOOLEAN :
       UpdateProgress(d, "changeset", "in_progress", "Creating change set...", ok)
  /\ Goto(d, "changeset_call")
  /\ UNCHANGED <<locals, result, env, envAtBoot, calls>>

\* deployment.ts:76-79.
ChangesetFailed(d) ==
  /\ pc[d] = "changeset_call"
  /\ \E e \in Errors, ok \in BOOLEAN :
       /\ UpdateProgress(d, "changeset", "failed", Msg("Failed to create change set: ", e), ok)
       /\ ReturnFailure(d, e, NoChangeSet)
  /\ UNCHANGED <<locals, env, envAtBoot, calls>>

\* deployment.ts:80-81.
ChangesetCreated(d) ==
  /\ pc[d] = "changeset_call"
  /\ changeSetId' = [changeSetId EXCEPT ![d] = Msg("cs-", ToString(d))]
  /\ \E ok \in BOOLEAN :
       UpdateProgress(d, "changeset", "completed",
                      Msg("Change set created: ", changeSetId'[d]), ok)
  /\ Goto(d, "component")
  /\ UNCHANGED <<workspaceData, awsAccountId, originalToken, applyResult, result,
                 env, envAtBoot, calls>>

\* Step 3, deployment.ts:84-109: the record, then createComponent for the
\* AWS::Organizations::Account component.
ComponentBegin(d) ==
  /\ pc[d] = "component"
  /\ \E ok \in BOOLEAN :
       UpdateProgress(d, "component", "in_progress",
                      "Creating AWS Organizations Account component...", ok)
  /\ Goto(d, "component_call")
  /\ UNCHANGED <<locals, result, env, envAtBoot, calls>>

\* deployment.ts:111-114.
ComponentFailed(d) ==
  /\ pc[d] = "component_call"
  /\ \E e \in Errors, ok \in BOOLEAN :
       /\ UpdateProgress(d, "component", "failed", Msg("Failed to create component: ", e), ok)
       /\ ReturnFailure(d, e, changeSetId[d])
  /\ UNCHANGED <<locals, env, envAtBoot, calls>>

\* deployment.ts:115.
ComponentCreated(d) ==
  /\ pc[d] = "component_call"
  /\ \E ok \in BOOLEAN :
       UpdateProgress(d, "component", "completed",
                      Msg("AWS Account component created: ", Msg("account-", ToString(d))), ok)
  /\ Goto(d, "workspace")
  /\ UNCHANGED <<locals, result, env, envAtBoot, calls>>

\* WorkspaceBegin without its record: createComponent is called at once.
WorkspaceBeginUnrecorded(d) ==
  /\ pc[d] = "workspace"
  /\ Goto(d, "workspace_call")
  /\ UNCHANGED <<locals, progress, tenants, faultsLeft, deploymentProgress, result,
                 env, envAtBoot, calls>>

\* Step 4, deployment.ts:118-133: the record, then createComponent for the
\* Workspace Management component.
WorkspaceBegin(d) ==
  /\ pc[d] = "workspace"
  /\ \E ok \in BOOLEAN :
       UpdateProgress(d, "workspace", "in_progress",
                      "Creating Workspace Management component...", ok)
  /\ Goto(d, "workspace_call")
  /\ UNCHANGED <<locals, result, env, envAtBoot, calls>>

\* deployment.ts:135-138.
WorkspaceFailed(d) ==
  /\ pc[d] = "workspace_call"
  /\ \E e \in Errors, ok \in BOOLEAN :
       /\ UpdateProgress(d, "workspace", "failed",
                         Msg("Failed to create workspace component: ", e), ok)
       /\ ReturnFailure(d, e, changeSetId[d])
  /\ UNCHANGED <<locals, env, envAtBoot, calls>>

\* deployment.ts:139.
WorkspaceCreated(d) ==
  /\ pc[d] = "workspace_call"
  /\ \E ok \in BOOLEAN :
       UpdateProgress(d, "workspace", "completed",
                      Msg("Workspace component created: ", Msg("workspace-", ToString(d))), ok)
  /\ Goto(d, "apply")
  /\ UNCHANGED <<locals, result, env, envAtBoot, calls>>

\* Step 5, deployment.ts:142-143: the record, then applyChangeSet(changeSetId,
\* 120, [both component ids]).
ApplyBegin(d) ==
  /\ pc[d] = "apply"
  /\ \E ok \in BOOLEAN :
       UpdateProgress(d, "apply", "in_progress",
                      "Applying changeset with both components...", ok)
  /\ applyResult' = [applyResult EXCEPT ![d] = Pending]
  /\ Goto(d, "apply_call")
  /\ UNCHANGED <<changeSetId, workspaceData, awsAccountId, originalToken, result,
                 env, envAtBoot, calls>>

\* applyChangeSet resolves: {success:true}, or {success:false, error} from its
\* outer catch (changeset.ts:178-181).  The call in detail is ApplyChangeSet below.
ApplyChangeSetResolves(d) ==
  /\ pc[d] = "apply_call"
  /\ applyResult[d] = Pending
  /\ \E r \in {ServiceResult(TRUE, NoError)} \cup {ServiceResult(FALSE, e) : e \in Errors} :
       applyResult' = [applyResult EXCEPT ![d] = r]
  /\ UNCHANGED <<pc, progress, changeSetId, workspaceData, awsAccountId, originalToken,
                 result, env, envAtBoot, calls, deploymentProgress, tenants, faultsLeft>>

\* deployment.ts:144-147.
ApplyFailed(d) ==
  /\ pc[d] = "apply_call"
  /\ applyResult[d].state = "resolved"
  /\ ~applyResult[d].success
  /\ \E ok \in BOOLEAN :
       UpdateProgress(d, "apply", "failed",
                      Msg("Failed to apply changeset: ", applyResult[d].error), ok)
  /\ ReturnFailure(d, applyResult[d].error, changeSetId[d])
  /\ UNCHANGED <<locals, env, envAtBoot, calls>>

\* deployment.ts:148.
ApplyCompleted(d) ==
  /\ pc[d] = "apply_call"
  /\ applyResult[d].state = "resolved"
  /\ applyResult[d].success
  /\ \E ok \in BOOLEAN :
       UpdateProgress(d, "apply", "completed",
                      "Changeset applied successfully - both component actions completed", ok)
  /\ Goto(d, "workspace-extraction")
  /\ UNCHANGED <<locals, result, env, envAtBoot, calls>>

\* Step 6, deployment.ts:151-154: the record, then extractTokenWithPolling.
WorkspaceExtractionBegin(d) ==
  /\ pc[d] = "workspace-extraction"
  /\ \E ok \in BOOLEAN :
       UpdateProgress(d, "workspace-extraction", "in_progress",
                      "Extracting workspace API token...", ok)
  /\ Goto(d, "workspace-extraction_call")
  /\ UNCHANGED <<locals, result, env, envAtBoot, calls>>

\* deployment.ts:155-168: the token was extracted; workspaceData holds it.
WorkspaceExtracted(d) ==
  /\ pc[d] = "workspace-extraction_call"
  /\ workspaceData' = [workspaceData EXCEPT ![d] = WorkspaceToken(d)]
  /\ \E ok \in BOOLEAN :
       UpdateProgress(d, "workspace-extraction", "completed",
                      Msg("Workspace token extracted: ", Msg("ws-", ToString(d))), ok)
  /\ Goto(d, "aws-extraction")
  /\ UNCHANGED <<changeSetId, awsAccountId, originalToken, applyResult, result,
                 env, envAtBoot, calls>>

\* A variant of lines 172-176 that only warns, as the aws-extraction step does.
WorkspaceExtractionFailedSoft(d) ==
  /\ pc[d] = "workspace-extraction_call"
  /\ \E e \in Errors, ok \in BOOLEAN :
       UpdateProgress(d, "workspace-extraction", "failed",
                      Msg("Workspace token extraction failed: ", e), ok)
  /\ Goto(d, "aws-extraction")
  /\ UNCHANGED <<locals, result, env, envAtBoot, calls>>

\* deployment.ts:169-176: extraction failed (timeout or hard error); the thrown
\* Error is caught, recorded, and the pipeline returns.
WorkspaceExtractionFailed(d) ==
  /\ pc[d] = "workspace-extraction_call"
  /\ \E e \in Errors, ok \in BOOLEAN :
       LET message == Msg("Workspace token extraction failed: ", e)
       IN /\ UpdateProgress(d, "workspace-extraction", "failed",
                            Msg("Workspace token extraction failed: ", message), ok)
          /\ ReturnFailure(d, message, changeSetId[d])
  /\ UNCHANGED <<locals, env, envAtBoot, calls>>

\* Step 7, deployment.ts:179-186: the record, then the account-id poll.
AwsExtractionBegin(d) ==
  /\ pc[d] = "aws-extraction"
  /\ \E ok \in BOOLEAN :
       UpdateProgress(d, "aws-extraction", "in_progress", "Extracting AWS Account ID...", ok)
  /\ Goto(d, "aws-extraction_call")
  /\ UNCHANGED <<locals, result, env, envAtBoot, calls>>

\* deployment.ts:192-194, 201-204, 213-214: the poll found the account id.
AwsAccountIdFound(d) ==
  /\ pc[d] = "aws-extraction_call"
  /\ awsAccountId' = [awsAccountId EXCEPT ![d] = Msg("aws-", ToString(d))]
  /\ \E ok \in BOOLEAN :
       UpdateProgress(d, "aws-extraction", "completed",
                      Msg("AWS Account ID extracted: ", awsAccountId'[d]), ok)
  /\ Goto(d, "data-storage")
  /\ UNCHANGED <<changeSetId, workspaceData, originalToken, applyResult, result,
                 env, envAtBoot, calls>>

\* deployment.ts:185, 207-217: the poll ran out of time, or a fetch failed.
AwsAccountIdNotFound(d) ==
  /\ pc[d] = "aws-extraction_call"
  /\ \E ok \in BOOLEAN :
       UpdateProgress(d, "aws-extraction", "completed",
                      "AWS Account ID not found after polling", ok)
  /\ Goto(d, "data-storage")
  /\ UNCHANGED <<locals, result, env, envAtBoot, calls>>

\* deployment.ts:219-222: reading the response threw.
AwsExtractionThrew(d) ==
  /\ pc[d] = "aws-extraction_call"
  /\ \E e \in Errors, ok \in BOOLEAN :
       UpdateProgress(d, "aws-extraction", "completed",
                      Msg("AWS Account extraction failed: ", e), ok)
  /\ Goto(d, "data-storage")
  /\ UNCHANGED <<locals, result, env, envAtBoot, calls>>

\* Step 8, deployment.ts:225-233 and 250-253: with workspace data, the record
\* and then saveWorkspaceToken; without, one completed record.
DataStorageBegin(d) ==
  /\ pc[d] = "data-storage"
  /\ IF workspaceData[d] # NoWorkspaceData
       THEN /\ \E ok \in BOOLEAN :
                 UpdateProgress(d, "data-storage", "in_progress",
                                "Storing workspace and AWS account data...", ok)
            /\ Goto(d, "data-storage_call")
       ELSE /\ \E ok \in BOOLEAN :
                 UpdateProgress(d, "data-storage", "completed",
                                "No workspace data available to store", ok)
            /\ Goto(d, "stackset-creation")
  /\ UNCHANGED <<locals, result, env, envAtBoot, calls>>

\* deployment.ts:235-241.
DataStored(d) ==
  /\ pc[d] = "data-storage_call"
  /\ \E ok \in BOOLEAN :
       UpdateProgress(d, "data-storage", "completed",
                      Msg("Data stored successfully for workspace ", Msg("ws-", ToString(d))), ok)
  /\ Goto(d, "stackset-creation")
  /\ UNCHANGED <<locals, result, env, envAtBoot, calls>>

\* deployment.ts:242-245: saveWorkspaceToken returned {success:false}; the
\* failure is recorded and the pipeline goes on to the next step.
DataStorageFailed(d) ==
  /\ pc[d] = "data-storage_call"
  /\ \E e \in Errors, ok \in BOOLEAN :
       UpdateProgress(d, "data-storage", "failed", Msg("Failed to store data: ", e), ok)
  /\ Goto(d, "stackset-creation")
  /\ UNCHANGED <<locals, result, env, envAtBoot, calls>>

\* StackSetBegin with the skip passed over in silence: no record is appended
\* when the step is skipped.
StackSetBeginSilentSkip(d) ==
  /\ pc[d] = "stackset-creation"
  /\ IF workspaceData[d] # NoWorkspaceData /\ awsAccountId[d] # NoAccountId
       THEN /\ \E ok \in BOOLEAN :
                 UpdateProgress(d, "stackset-creation", "in_progress",
                                "Creating StackSet for IAM role seeding...", ok)
            /\ Goto(d, "stackset-creation_call")
       ELSE /\ Goto(d, "vpc-template")
            /\ UNCHANGED <<progress, tenants, faultsLeft, deploymentProgress>>
  /\ UNCHANGED <<locals, result, env, envAtBoot, calls>>

\* Step 9, deployment.ts:256-259 and 270-272: with workspace data and an account
\* id, the record and then createStackSetForTenant; without, one completed record.
StackSetBegin(d) ==
  /\ pc[d] = "stackset-creation"
  /\ IF workspaceData[d] # NoWorkspaceData /\ awsAccountId[d] # NoAccountId
       THEN /\ \E ok \in BOOLEAN :
                 UpdateProgress(d, "stackset-creation", "in_progress",
                                "Creating StackSet for IAM role seeding...", ok)
            /\ Goto(d, "stackset-creation_call")
       ELSE /\ \E ok \in BOOLEAN :
                 UpdateProgress(d, "stackset-creation", "completed",
                                "StackSet creation skipped - missing required data", ok)
            /\ Goto(d, "vpc-template")
  /\ UNCHANGED <<locals, result, env, envAtBoot, calls>>

\* deployment.ts:260-261.
StackSetCreated(d) ==
  /\ pc[d] = "stackset-creation_call"
  /\ \E ok \in BOOLEAN :
       UpdateProgress(d, "stackset-creation", "completed",
                      Msg("StackSet changeset created and applied: ",
                          Msg("stackset-cs-", ToString(d))), ok)
  /\ Goto(d, "vpc-template")
  /\ UNCHANGED <<locals, result, env, envAtBoot, calls>>

\* A variant of lines 262-265 that treats the failure like the failure of an
\* earlier step: the record, then return { success: false, ... }.
StackSetFailedHard(d) ==
  /\ pc[d] = "stackset-creation_call"
  /\ \E e \in Errors, ok \in BOOLEAN :
       /\ UpdateProgress(d, "stackset-creation", "failed",
                         Msg("StackSet creation failed: ", e), ok)
       /\ ReturnFailure(d, e, changeSetId[d])
  /\ UNCHANGED <<locals, env, envAtBoot, calls>>

\* deployment.ts:262-265: createStackSetForTenant returned {success:false}.
StackSetFailed(d) ==
  /\ pc[d] = "stackset-creation_call"
  /\ \E e \in Errors, ok \in BOOLEAN :
       UpdateProgress(d, "stackset-creation", "failed",
                      Msg("StackSet creation failed: ", e), ok)
  /\ Goto(d, "vpc-template")
  /\ UNCHANGED <<locals, result, env, envAtBoot, calls>>

\* Step 10, deployment.ts:275-287 and 301-303: with a workspace token, the
\* record, then SI_API_TOKEN is saved and set to the workspace token and
\* runTemplate is called; without, one completed record.
VpcTemplateBegin(d) ==
  /\ pc[d] = "vpc-template"
  /\ IF workspaceData[d] # NoWorkspaceData
       THEN /\ \E ok \in BOOLEAN :
                 UpdateProgress(d, "vpc-template", "in_progress",
                                "Running AWS Standard VPC template...", ok)
            /\ originalToken' = [originalToken EXCEPT ![d] = env]
            /\ env' = workspaceData[d]
            /\ Goto(d, "vpc-template_call")
       ELSE /\ \E ok \in BOOLEAN :
                 UpdateProgress(d, "vpc-template", "completed",
                                "VPC template execution skipped - missing workspace token", ok)
            /\ Goto(d, "complete")
            /\ UNCHANGED <<originalToken, env>>
  /\ UNCHANGED <<changeSetId, workspaceData, awsAccountId, applyResult, result, envAtBoot, calls>>

\* deployment.ts:291-295, the finally block: if (originalToken) set it back,
\* else delete the variable.  undefined and "" are both falsy.
RestoredToken(saved) == IF saved \in {Unset, EmptyToken} THEN Unset ELSE saved

\* deployment.ts:288: runTemplate resolved; the completed record is written
\* (an await) before the finally block runs.
VpcTemplateRan(d) ==
  /\ pc[d] = "vpc-template_call"
  /\ \E ok \in BOOLEAN :
       UpdateProgress(d, "vpc-template", "completed", "VPC template executed successfully", ok)
  /\ Goto(d, "vpc-template_finally")
  /\ UNCHANGED <<locals, result, env, envAtBoot, calls>>

\* deployment.ts:289-296, after a successful run.
VpcTemplateRestore(d) ==
  /\ pc[d] = "vpc-template_finally"
  /\ env' = RestoredToken(originalToken[d])
  /\ Goto(d, "complete")
  /\ UNCHANGED <<locals, progress, result, envAtBoot, calls, deploymentProgress, tenants, faultsLeft>>

\* deployment.ts:289-300: runTemplate threw; the finally block restores the
\* token, then the catch records the failure and the pipeline goes on.
VpcTemplateThrew(d) ==
  /\ pc[d] = "vpc-template_call"
  /\ env' = RestoredToken(originalToken[d])
  /\ \E e \in Errors, ok \in BOOLEAN :
       UpdateProgress(d, "vpc-template", "failed",
                      Msg("VPC template execution failed: ", e), ok)
  /\ Goto(d, "complete")
  /\ UNCHANGED <<locals, result, envAtBoot, calls>>

\* deployment.ts:306-307.
Complete(d) ==
  /\ pc[d] = "complete"
  /\ \E ok \in BOOLEAN :
       UpdateProgress(d, "complete", "completed",
                      "Tenant deployment completed successfully", ok)
  /\ result' = [result EXCEPT ![d] = DeploymentResult(TRUE, NoError, changeSetId[d], TRUE)]
  /\ Goto(d, "returned")
  /\ UNCHANGED <<locals, env, envAtBoot, calls>>

\* The positions of deployTenant inside the outer try and outside every inner
\* try/catch (deployment.ts:59-151, and the records of lines 179, 226, 251,
\* 257, 271, 276, 302 and 306): an exception thrown there reaches line 309.
TopLevelAwaits ==
  {"create", "initialize", "initialize_run", "changeset", "changeset_call",
   "component", "component_call", "workspace", "workspace_call", "apply",
   "apply_call", "workspace-extraction", "aws-extraction", "data-storage",
   "stackset-creation", "vpc-template", "complete"}

\* deployment.ts:309-312, the outer catch: an awaited call of the outer try
\* rejects with an error none of the collaborators' own handlers caught.
UnexpectedException(d) ==
  /\ pc[d] \in TopLevelAwaits
  /\ \E e \in Errors, ok \in BOOLEAN :
       /\ UpdateProgress(d, "error", "failed", Msg("Unexpected error: ", e), ok)
       /\ result' = [result EXCEPT ![d] = DeploymentResult(FALSE, e, changeSetId[d], TRUE)]
  /\ Goto(d, "returned")
  /\ UNCHANGED <<locals, env, envAtBoot, calls>>

\* main.ts:153-165, the then-callback of the start handler: the entry is
\* replaced by the completed one and the cleanup timer is armed.
DeploymentSettled(d) ==
  /\ pc[d] = "returned"
  /\ deploymentProgress' = MapSet(deploymentProgress, MainId(d),
       [completed |-> TRUE, success |-> result[d].success, error |-> result[d].error,
        progress |-> progress[d]])
  /\ Goto(d, "done")
  /\ UNCHANGED <<locals, progress, result, env, envAtBoot, calls, tenants, faultsLeft>>

\* A variant of the cleanup in which the timer is armed when the entry is
\* created, so that it may fire before the then-callback has run.
CleanUpArmedAtStart(d) ==
  /\ pc[d] \in {"returned", "done"}
  /\ deploymentProgress' = MapDelete(deploymentProgress, MainId(d))
  /\ Goto(d, "cleaned")
  /\ UNCHANGED <<locals, progress, result, env, envAtBoot, calls, tenants, faultsLeft>>

\* main.ts:163-165: the timer fires ten minutes after completion.
CleanUp(d) ==
  /\ pc[d] = "done"
  /\ deploymentProgress' = MapDelete(deploymentProgress, MainId(d))
  /\ Goto(d, "cleaned")
  /\ UNCHANGED <<locals, progress, result, env, envAtBoot, calls, tenants, faultsLeft>>

\* ------------------------------------------------------------------ specification
\* One step of the deployment started by request d.
\* ------------------------------------------------------- applyChangeSet
\* changeset.ts:97-182 step by step.  Time is in whole seconds; the code only
\* ever reads differences of Date.now(), so the call keeps elapsed, which is
\* (Date.now() - startTime) / 1000, and pollElapsed, which is
\* (Date.now() - pollStartTime) / 1000.
RetryDelay == 5
GiveUpMargin == 5
PollTimeout == 60
PollInterval == 2
DeployTimeout == 120

\* What a call of forceApply or mergeStatus may take, in seconds.
Latencies == 0..MaxLatency

\* The timeoutSeconds a caller outside the pipeline passes.
TimeoutChoices == {30, DeployTimeout}

DirectCaller == <<"direct", 0>>
DeployTenantCaller(d) == <<"deployTenant", d>>

\* pc: "idle", "forceApply" (line 105 awaited), "retry_wait" (line 124),
\* "mergeStatus" (line 143 awaited), "poll_wait" (line 168), "returned".
\* forceApplyCalls, only428, retryGap, callsAtGiveUp and poll record what the
\* call has done: the forceApply requests sent, whether every forceApply answer
\* so far was a 428, the seconds between the last 428 answer and the retry
\* after it, the number of forceApply requests sent when line 121 gave up (0
\* while it has not), and the drain poll: "none", "polling", or how it ended,
\* "drained" (line 157), "error" (line 171) or "timeout" (line 141).  thrown is
\* the message of the error forceApply threw, if it was not a 428.
IdleCall ==
  [pc |-> "idle", caller |-> DirectCaller, timeoutSeconds |-> 0, monitored |-> FALSE,
   elapsed |-> 0, pollElapsed |-> 0, forceApplyCalls |-> 0, only428 |-> TRUE,
   retryGap |-> 0, callsAtGiveUp |-> 0, poll |-> "none", thrown |-> NoError,
   result |-> NoCall]

\* The call moves to c; when it has returned to deployTenant, the apply step's
\* await (deployment.ts:143) has its value.
CallStep(c) ==
  /\ call' = c
  /\ applyResult' = IF c.pc = "returned" /\ c.caller[1] = "deployTenant"
                      THEN [applyResult EXCEPT ![c.caller[2]] = c.result]
                      ELSE applyResult
  /\ UNCHANGED <<pc, progress, changeSetId, workspaceData, awsAccountId, originalToken,
                 result, env, envAtBoot, deploymentProgress, tenants, faultsLeft,
                 extraction, recorder, accountPoll, hold>>

\* changeset.ts:178-181.
Resolve(c, r) == [c EXCEPT !.pc = "returned", !.result = r]

\* changeset.ts:105: one more forceApply request.
SendForceApply(c) ==
  [c EXCEPT !.pc = "forceApply", !.forceApplyCalls = @ + 1]

\* changeset.ts:133-177 on entry: with component ids, pollStartTime is taken,
\* the loop test of line 141 holds and mergeStatus is requested; without, the
\* call returns {success: true}.
AfterCommitLoop(c) ==
  IF c.monitored
    THEN [c EXCEPT !.pc = "mergeStatus", !.pollElapsed = 0, !.poll = "polling"]
    ELSE Resolve(c, ServiceResult(TRUE, NoError))

\* changeset.ts:97-105: startTime is taken, the loop test of line 104 holds for
\* a positive timeout, and forceApply is requested.
EnterApplyChangeSet(caller, timeoutSeconds, monitored) ==
  SendForceApply([IdleCall EXCEPT !.caller = caller,
                                  !.timeoutSeconds = timeoutSeconds,
                                  !.monitored = monitored])

\* deployment.ts:143: applyChangeSet(changeSetId, 120, [two component ids]).
ApplyChangeSetCalled(d) ==
  /\ pc[d] = "apply_call"
  /\ applyResult[d] = Pending
  /\ call.pc \in {"idle", "returned"}
  /\ CallStep(EnterApplyChangeSet(DeployTenantCaller(d), DeployTimeout, TRUE))

\* A call from outside the pipeline, while no deployment is requested:
\* seedTenantWorkspace (changeset.ts:266) passes 120 and no component ids.
ApplyChangeSetCalledDirectly ==
  /\ \A d \in Deployments : pc[d] = "idle"
  /\ call.pc = "idle"
  /\ \E t \in TimeoutChoices, monitored \in BOOLEAN :
       CallStep(EnterApplyChangeSet(DirectCaller, t, monitored))

\* changeset.ts:109-110: forceApply answers without an error; break.
ForceApplySucceeds ==
  /\ call.pc = "forceApply"
  /\ \E l \in Latencies :
       CallStep(AfterCommitLoop([call EXCEPT !.elapsed = @ + l, !.only428 = FALSE]))

\* A variant of lines 120-122 that reports the timeout instead of going on.
ForceApply428Strict ==
  /\ call.pc = "forceApply"
  /\ \E l \in Latencies :
       LET elapsed == call.elapsed + l
           remaining == call.timeoutSeconds - elapsed
           c == [call EXCEPT !.elapsed = elapsed]
       IN CallStep(IF remaining <= GiveUpMargin
                     THEN Resolve([c EXCEPT !.callsAtGiveUp = c.forceApplyCalls],
                                  ServiceResult(FALSE, "e1"))
                     ELSE [c EXCEPT !.pc = "retry_wait"])

\* changeset.ts:112-125: forceApply answers 428.  remaining is computed from the
\* clock after the answer; at 5 or less the loop is left, otherwise the 5 s
\* timer is started.
ForceApply428 ==
  /\ call.pc = "forceApply"
  /\ \E l \in Latencies :
       LET elapsed == call.elapsed + l
           remaining == call.timeoutSeconds - elapsed
           c == [call EXCEPT !.elapsed = elapsed]
       IN CallStep(IF remaining <= GiveUpMargin
                     THEN AfterCommitLoop([c EXCEPT !.callsAtGiveUp = c.forceApplyCalls])
                     ELSE [c EXCEPT !.pc = "retry_wait"])

\* A variant of lines 128-129 that treats every error as it treats a 428 with no
\* time left: the loop is left and the call goes on to the drain poll.
ForceApplyThrowsSoft ==
  /\ call.pc = "forceApply"
  /\ \E l \in Latencies, e \in Errors :
       CallStep(AfterCommitLoop([call EXCEPT !.elapsed = @ + l, !.only428 = FALSE,
                                             !.thrown = e]))

\* changeset.ts:128-129, 180-181: any other error is rethrown and the outer
\* catch returns {success: false, error: error.message}.
ForceApplyThrows ==
  /\ call.pc = "forceApply"
  /\ \E l \in Latencies, e \in Errors :
       CallStep(Resolve([call EXCEPT !.elapsed = @ + l, !.only428 = FALSE,
                                     !.thrown = e],
                        ServiceResult(FALSE, e)))

\* changeset.ts:150-157: no action of a monitored component is left.
MergeStatusDrained ==
  /\ call.pc = "mergeStatus"
  /\ \E l \in Latencies :
       CallStep(Resolve([call EXCEPT !.pollElapsed = @ + l, !.poll = "drained"],
                        ServiceResult(TRUE, NoError)))

\* changeset.ts:159-168: actions are still running; the 2 s timer is started.
MergeStatusRunning ==
  /\ call.pc = "mergeStatus"
  /\ \E l \in Latencies :
       CallStep([call EXCEPT !.pollElapsed = @ + l, !.pc = "poll_wait"])

\* A variant of lines 169-172 that lets the error of mergeStatus reach the
\* catch of the whole function.
MergeStatusThrowsHard ==
  /\ call.pc = "mergeStatus"
  /\ \E l \in Latencies, e \in Errors :
       CallStep(Resolve([call EXCEPT !.pollElapsed = @ + l, !.poll = "error"],
                        ServiceResult(FALSE, e)))

\* changeset.ts:169-172, 176-178: mergeStatus throws; break; {success: true}.
MergeStatusThrows ==
  /\ call.pc = "mergeStatus"
  /\ \E l \in Latencies :
       CallStep(Resolve([call EXCEPT !.pollElapsed = @ + l, !.poll = "error"],
                        ServiceResult(TRUE, NoError)))

\* A variant of lines 175-178 that reports the expiry of the drain poll as a
\* failure.
PollTimerFiresHard ==
  /\ call.pc = "poll_wait"
  /\ LET c == [call EXCEPT !.pollElapsed = @ + PollInterval]
     IN CallStep(IF c.pollElapsed < PollTimeout
                   THEN [c EXCEPT !.pc = "mergeStatus"]
                   ELSE Resolve([c EXCEPT !.poll = "timeout"], ServiceResult(FALSE, "e1")))

\* changeset.ts:168, 141, 175-178: the 2 s timer fires and the loop test decides
\* between one more mergeStatus and the timeout, which returns {success: true}.
PollTimerFires ==
  /\ call.pc = "poll_wait"
  /\ LET c == [call EXCEPT !.pollElapsed = @ + PollInterval]
     IN CallStep(IF c.pollElapsed < PollTimeout
                   THEN [c EXCEPT !.pc = "mergeStatus"]
                   ELSE Resolve([c EXCEPT !.poll = "timeout"], ServiceResult(TRUE, NoError)))

\* A variant of line 124 that waits 2 s only.
RetryTimerFiresSoon ==
  /\ call.pc = "retry_wait"
  /\ LET c == [call EXCEPT !.elapsed = @ + PollInterval, !.retryGap = PollInterval]
     IN CallStep(IF c.elapsed < c.timeoutSeconds
                   THEN SendForceApply(c)
                   ELSE AfterCommitLoop(c))

\* changeset.ts:124-125, 104: the 5 s timer fires, continue, and the loop test
\* decides between one more forceApply and leaving the loop.
RetryTimerFires ==
  /\ call.pc = "retry_wait"
  /\ LET c == [call EXCEPT !.elapsed = @ + RetryDelay, !.retryGap = RetryDelay]
     IN CallStep(IF c.elapsed < c.timeoutSeconds
                   THEN SendForceApply(c)
                   ELSE AfterCommitLoop(c))

\* The seconds for which the control plane of the outage scenario answers
\* forceApply with 428, counted from the start of the call, and the
\* timeoutSeconds of the call.
OutageSeconds == 20
OutageTimeout == 30

\* applyChangeSet(changeSetId, 30) or applyChangeSet(changeSetId, 30, ids).
ApplyChangeSetCalledInOutage ==
  /\ \A d \in Deployments : pc[d] = "idle"
  /\ call.pc = "idle"
  /\ \E monitored \in BOOLEAN :
       CallStep(EnterApplyChangeSet(DirectCaller, OutageTimeout, monitored))

\* The control plane of the scenario: a forceApply request sent (the call is
\* at line 105 since call.elapsed) before the outage is over is answered 428;
\* one sent afterwards succeeds.
ForceApplyInOutage ==
  \/ call.elapsed < OutageSeconds /\ ForceApply428
  \/ call.elapsed >= OutageSeconds /\ ForceApplySucceeds

ApplyChangeSet(d) ==
  \/ ApplyChangeSetCalled(d)
  \/ ApplyChangeSetCalledDirectly
  \/ ForceApplySucceeds \/ ForceApply428 \/ ForceApplyThrows \/ RetryTimerFires
  \/ MergeStatusDrained \/ MergeStatusRunning \/ MergeStatusThrows \/ PollTimerFires

\* ------------------------------------------------ extractTokenWithPolling
\* token-extractor.ts:19-124.  Time is in whole seconds, elapsed is
\* (Date.now() - startTime) / 1000.  An error text is the sequence of its
\* fragments; String.prototype.includes is Includes.
ExtractDelay == 5
ExtractTimeout == 60

\* The texts extractToken is written with (lines 35, 45, 78).
TokenNotFound == "initialApiToken not found"

NotFoundError == <<TokenNotFound, " in component">>

NoComponentError == <<"No component found in response">>

HttpError(status, errorText) == <<"HTTP ", status, ": ">> \o errorText

\* What the control plane may send as the body of a non-OK response, and what a
\* thrown error may carry as its message (the empty text included).
ErrorTexts == {<<"internal error">>, <<TokenNotFound>>, <<>>}

Includes(text, fragment) == \E i \in DOMAIN text : text[i] = fragment

\* result.error && !result.error.includes('initialApiToken not found'), line 101.
RealError(error) == Len(error) > 0 /\ ~Includes(error, TokenNotFound)

ExtractionResult(success, token, error) ==
  [state |-> "resolved", success |-> success, token |-> token, error |-> error]

NoExtractionResult == [state |-> "none", success |-> FALSE, token |-> "", error |-> <<>>]

\* The path of the resourceProps entry that holds the token (line 65).
TokenPath == "root/resource_value/initialApiToken/token"

\* data.component of an OK response: the token of
\* attributes['/resource/payload'].initialApiToken ("" when any part of that
\* chain is missing or the token is empty) and the resourceProps list.
Components ==
  [payload : {"", "payload-token"},
   resourceProps : {<<>>,
                    <<[path |-> "root/si/name", value |-> "name"]>>,
                    <<[path |-> TokenPath, value |-> ""]>>,
                    <<[path |-> "root/si/name", value |-> "name"],
                      [path |-> TokenPath, value |-> "props-token"]>>}]

NoComponent == [payload |-> "", resourceProps |-> <<>>]

\* resourceProps.find(prop => prop.path === path): the first entry with the
\* path, or a valueless one (undefined) if there is none.
Find(resourceProps, path) ==
  IF \E i \in DOMAIN resourceProps : resourceProps[i].path = path
    THEN resourceProps[CHOOSE i \in DOMAIN resourceProps :
                         /\ resourceProps[i].path = path
                         /\ \A j \in 1..(i - 1) : resourceProps[j].path # path]
    ELSE [path |-> path, value |-> ""]

\* A variant of lines 50-73 that looks into resourceProps first.
ExtractTokenPropsFirst(component) ==
  IF Find(component.resourceProps, TokenPath).value # ""
    THEN ExtractionResult(TRUE, Find(component.resourceProps, TokenPath).value, <<>>)
    ELSE IF component.payload # ""
           THEN ExtractionResult(TRUE, component.payload, <<>>)
           ELSE ExtractionResult(FALSE, "", NotFoundError)

\* token-extractor.ts:49-79, extractToken once the component is there: the
\* payload's token, else the value of the resourceProps entry, else the
\* 'not found' failure.
ExtractToken(component) ==
  IF component.payload # ""
    THEN ExtractionResult(TRUE, component.payload, <<>>)
    ELSE IF Find(component.resourceProps, TokenPath).value # ""
           THEN ExtractionResult(TRUE, Find(component.resourceProps, TokenPath).value, <<>>)
           ELSE ExtractionResult(FALSE, "", NotFoundError)

\* pc: "idle", "probe" (line 95 awaited), "wait" (line 117), "returned".
\* probes and answer record what the call has done: the extractToken calls
\* made, and the kind of the last answer: "none", "token", "absent" (line 76),
\* "http" (line 31), "no-component" (line 42) or "thrown" (line 81); component
\* is the component of the last OK response and probed what the last
\* extractToken call returned.
IdleExtraction ==
  [pc |-> "idle", timeoutSeconds |-> 0, elapsed |-> 0, probes |-> 0,
   answer |-> "none", component |-> NoComponent, probed |-> NoExtractionResult,
   result |-> NoExtractionResult]

ExtractionStep(x) ==
  /\ extraction' = x
  /\ UNCHANGED <<pc, progress, changeSetId, workspaceData, awsAccountId, originalToken,
                 applyResult, result, env, envAtBoot, deploymentProgress, tenants,
                 faultsLeft, call, recorder, accountPoll, hold>>

\* token-extractor.ts:91-95: startTime is taken, the loop test holds for a
\* positive timeout and extractToken is called.  deployTenant passes 60000.
ExtractTokenWithPollingCalled ==
  /\ extraction.pc = "idle"
  /\ \A d \in Deployments : pc[d] = "idle"
  /\ call.pc = "idle"
  /\ ExtractionStep([IdleExtraction EXCEPT !.pc = "probe",
                                           !.timeoutSeconds = ExtractTimeout,
                                           !.probes = 1])

\* A variant of line 109 that gives up as soon as the time left is no longer
\* than one more wait.
AfterProbeEarly(kind, r, l) ==
  LET x == [extraction EXCEPT !.elapsed = @ + l, !.answer = kind, !.probed = r]
  IN IF r.success \/ RealError(r.error)
       THEN [x EXCEPT !.pc = "returned", !.result = r]
       ELSE IF x.timeoutSeconds - x.elapsed <= ExtractDelay
              THEN [x EXCEPT !.pc = "returned",
                             !.result = ExtractionResult(FALSE, "",
                                          <<"Timeout waiting for initialApiToken">>)]
              ELSE [x EXCEPT !.pc = "wait"]

\* token-extractor.ts:97-118 after extractToken has answered r, l seconds after
\* it was called.
AfterProbe(kind, r, l) ==
  LET x == [extraction EXCEPT !.elapsed = @ + l, !.answer = kind, !.probed = r]
  IN IF r.success \/ RealError(r.error)
       THEN [x EXCEPT !.pc = "returned", !.result = r]
       ELSE IF x.timeoutSeconds - x.elapsed <= 0
              THEN [x EXCEPT !.pc = "returned",
                             !.result = ExtractionResult(FALSE, "",
                                          <<"Timeout waiting for initialApiToken">>)]
              ELSE [x EXCEPT !.pc = "wait"]

\* token-extractor.ts:49-73: the response holds a component in which
\* extractToken finds a token.
ProbeFindsToken ==
  /\ extraction.pc = "probe"
  /\ \E l \in Latencies, component \in Components :
       /\ ExtractToken(component).success
       /\ ExtractionStep([AfterProbe("token", ExtractToken(component), l)
                            EXCEPT !.component = component])

\* token-extractor.ts:76-79: the component is there, the token is not yet.
ProbeFindsNoToken ==
  /\ extraction.pc = "probe"
  /\ \E l \in Latencies, component \in Components :
       /\ ~ExtractToken(component).success
       /\ ExtractionStep([AfterProbe("absent", ExtractToken(component), l)
                            EXCEPT !.component = component])

\* token-extractor.ts:31-37: a non-OK response with its body.
ProbeHttpError ==
  /\ extraction.pc = "probe"
  /\ \E l \in Latencies, errorText \in ErrorTexts :
       ExtractionStep(AfterProbe("http",
                        ExtractionResult(FALSE, "", HttpError("500", errorText)), l))

\* token-extractor.ts:41-47: the response holds no component.
ProbeNoComponent ==
  /\ extraction.pc = "probe"
  /\ \E l \in Latencies :
       ExtractionStep(AfterProbe("no-component",
                        ExtractionResult(FALSE, "", NoComponentError), l))

\* token-extractor.ts:81-87: fetch or the decoding of the response threw.
ProbeThrows ==
  /\ extraction.pc = "probe"
  /\ \E l \in Latencies, message \in ErrorTexts :
       ExtractionStep(AfterProbe("thrown", ExtractionResult(FALSE, "", message), l))

\* token-extractor.ts:117, 94, 120-123: the 5 s timer fires and the loop test
\* decides between one more probe and 'Timeout reached'.
ExtractTimerFires ==
  /\ extraction.pc = "wait"
  /\ LET x == [extraction EXCEPT !.elapsed = @ + ExtractDelay]
     IN ExtractionStep(IF x.elapsed < x.timeoutSeconds
                         THEN [x EXCEPT !.pc = "probe", !.probes = @ + 1]
                         ELSE [x EXCEPT !.pc = "returned",
                                        !.result = ExtractionResult(FALSE, "",
                                                     <<"Timeout reached">>)])

ExtractTokenWithPolling ==
  \/ ExtractTokenWithPollingCalled
  \/ ProbeFindsToken \/ ProbeFindsNoToken \/ ProbeHttpError \/ ProbeNoComponent
  \/ ProbeThrows \/ ExtractTimerFires

\* ------------------------------------------------- the account-id poll
\* deployment.ts:180-211, the loop of step 7.  Time is in whole seconds,
\* elapsed is (Date.now() - startTime) / 1000.
AccountDelay == 5
AccountTimeout == 60

\* The path of the resourceProps entry that holds the account id (line 199).
AccountIdPath == "root/resource_value/AccountId"

\* accountResponse.data.component of a successful getComponent: AccountId of
\* attributes['/resource/payload'] ("" when missing) and the resourceProps.
AccountComponents ==
  [payload : {"", "111122223333"},
   resourceProps : {<<>>, <<[path |-> AccountIdPath, value |-> "444455556666"]>>}]

\* deployment.ts:191-204: the payload's AccountId, else the value of the
\* resourceProps entry, else nothing ("").
ExtractAccountId(component) ==
  IF component.payload # ""
    THEN component.payload
    ELSE Find(component.resourceProps, AccountIdPath).value

\* pc: "idle", "fetch" (line 186 awaited), "wait" (line 206), "ended" (the
\* loop and its try are left).  fetches counts the getComponent calls, answer
\* is the kind of the last answer: "none", "found", "absent", "failed" (line
\* 207) or "thrown" (line 219), and id is awsAccountId ("" for null).
IdleAccountPoll ==
  [pc |-> "idle", caller |-> 0, elapsed |-> 0, fetches |-> 0, answer |-> "none", id |-> ""]

AccountPollStep(a) ==
  /\ accountPoll' = a
  /\ UNCHANGED <<pc, progress, changeSetId, workspaceData, awsAccountId, originalToken,
                 applyResult, result, env, envAtBoot, deploymentProgress, tenants,
                 faultsLeft, call, extraction, recorder, hold>>

\* deployment.ts:180-186: startTime is taken, the loop test holds and
\* getComponent is called.
AccountPollCalled(d) ==
  /\ pc[d] = "aws-extraction_call"
  /\ accountPoll.pc = "idle"
  /\ AccountPollStep([IdleAccountPoll EXCEPT !.pc = "fetch", !.caller = d, !.fetches = 1])

\* deployment.ts:187-204: the component holds the account id; break.
FetchFindsAccountId ==
  /\ accountPoll.pc = "fetch"
  /\ \E l \in Latencies, component \in AccountComponents :
       /\ ExtractAccountId(component) # ""
       /\ AccountPollStep([accountPoll EXCEPT !.pc = "ended", !.elapsed = @ + l,
                                              !.answer = "found",
                                              !.id = ExtractAccountId(component)])

\* deployment.ts:187-206: the component does not hold the account id yet; the
\* 5 s timer is started.
FetchFindsNoAccountId ==
  /\ accountPoll.pc = "fetch"
  /\ \E l \in Latencies, component \in AccountComponents :
       /\ ExtractAccountId(component) = ""
       /\ AccountPollStep([accountPoll EXCEPT !.pc = "wait", !.elapsed = @ + l,
                                              !.answer = "absent"])

\* A variant of lines 207-210 that waits and fetches again.
FetchFailsRetried ==
  /\ accountPoll.pc = "fetch"
  /\ \E l \in Latencies :
       AccountPollStep([accountPoll EXCEPT !.pc = "wait", !.elapsed = @ + l,
                                          !.answer = "failed"])

\* deployment.ts:207-210: getComponent returned {success: false}; break.
FetchFails ==
  /\ accountPoll.pc = "fetch"
  /\ \E l \in Latencies :
       AccountPollStep([accountPoll EXCEPT !.pc = "ended", !.elapsed = @ + l,
                                          !.answer = "failed"])

\* deployment.ts:188, 219: reading the response threw (no data in it); the
\* catch of the step is entered.
FetchThrows ==
  /\ accountPoll.pc = "fetch"
  /\ \E l \in Latencies :
       AccountPollStep([accountPoll EXCEPT !.pc = "ended", !.elapsed = @ + l,
                                          !.answer = "thrown"])

\* A variant of line 185 that measures the time from the last fetch instead of
\* from startTime.
AccountPollTimerFiresRestarting ==
  /\ accountPoll.pc = "wait"
  /\ LET a == [accountPoll EXCEPT !.elapsed = AccountDelay]
     IN AccountPollStep(IF a.elapsed < AccountTimeout
                          THEN [a EXCEPT !.pc = "fetch"]
                          ELSE [a EXCEPT !.pc = "ended"])

\* deployment.ts:206, 185: the 5 s timer fires and the loop test decides
\* between one more getComponent and the end of the loop.
AccountPollTimerFires ==
  /\ accountPoll.pc = "wait"
  /\ LET a == [accountPoll EXCEPT !.elapsed = @ + AccountDelay]
     IN AccountPollStep(IF a.elapsed < AccountTimeout
                          THEN [a EXCEPT !.pc = "fetch", !.fetches = @ + 1]
                          ELSE [a EXCEPT !.pc = "ended"])

AccountPoll(d) ==
  \/ AccountPollCalled(d)
  \/ FetchFindsAccountId \/ FetchFindsNoAccountId \/ FetchFails \/ FetchThrows
  \/ AccountPollTimerFires

\* deployment.ts:213-222: the record of the step after the poll, by how the
\* poll ended.
AwsExtractionEnd(d) ==
  /\ accountPoll.pc = "ended"
  /\ accountPoll.caller = d
  /\ \/ accountPoll.answer = "found" /\ AwsAccountIdFound(d)
     \/ accountPoll.answer \in {"absent", "failed"} /\ AwsAccountIdNotFound(d)
     \/ accountPoll.answer = "thrown" /\ AwsExtractionThrew(d)

\* ------------------------------------------------- the calls, linked
\* deployment.ts:154: extractTokenWithPolling("HEAD", componentId, 60000).
ExtractTokenWithPollingCalledBy(d) ==
  /\ pc[d] = "workspace-extraction_call"
  /\ extraction.pc = "idle"
  /\ ExtractionStep([IdleExtraction EXCEPT !.pc = "probe",
                                           !.timeoutSeconds = ExtractTimeout,
                                           !.probes = 1])

\* deployment.ts:155-176: what step 6 does with the value of the call.
WorkspaceExtractionEnd(d) ==
  /\ extraction.pc = "returned"
  /\ \/ extraction.result.success /\ WorkspaceExtracted(d)
     \/ ~extraction.result.success /\ WorkspaceExtractionFailed(d)

\* The frame of a call that has returned is gone once deployTenant has taken
\* its value and moved on.
CallDropped(d) ==
  /\ call.pc = "returned"
  /\ pc[d] # "apply_call"
  /\ CallStep(IdleCall)

ExtractionDropped(d) ==
  /\ extraction.pc = "returned"
  /\ pc[d] # "workspace-extraction_call"
  /\ ExtractionStep(IdleExtraction)

AccountPollDropped(d) ==
  /\ accountPoll.pc = "ended"
  /\ pc[d] # "aws-extraction_call"
  /\ AccountPollStep(IdleAccountPoll)

\* ------------------------------------------------- updateProgress, timed
\* deployment.ts:28-57 and part_005:506-554 with their clock reads.  The clock
\* is Date.now() in ticks since the server started; it does not run backwards.
\* A timestamp is what toISOString makes of it: digits of fixed width, most
\* significant first.
ToISOStringUnpadded(t) == IF t < 10 THEN <<t>> ELSE <<t \div 10, t % 10>>

ToISOString(t) == <<t \div 10, t % 10>>

\* createProgressUpdate, deployment.ts:28-40, and the map written at
\* part_005:523-531.
TimedStepRecord(step, status, message, now) ==
  [step |-> step, status |-> status, message |-> message, timestamp |-> ToISOString(now)]

\* pc: "ready" (no updateProgress call is running), "store" (line 52 awaited,
\* updateTenantDeploymentStep at its getClient), "put" (the GetItem has
\* answered, the PutItem is awaited).  progress is deployTenant's list, steps
\* the item's list, pending the arguments of the running call, stamp its
\* timestamp (part_005:509), read the step list its GetItem returned, and
\* failed whether a store call of this deployment has thrown.
IdleRecorder ==
  [pc |-> "ready", now |-> 0, progress |-> <<>>, steps |-> <<>>,
   pending |-> StepRecord("", "", ""), stamp |-> 0, read |-> <<>>, failed |-> FALSE]

RecorderStep(r) ==
  /\ recorder' = r
  /\ UNCHANGED <<pc, progress, changeSetId, workspaceData, awsAccountId, originalToken,
                 applyResult, result, env, envAtBoot, deploymentProgress, tenants,
                 faultsLeft, call, extraction, accountPoll, hold>>

\* Time passes.
ClockTicks ==
  /\ recorder.now < MaxClock
  /\ RecorderStep([recorder EXCEPT !.now = @ + 1])

\* A variant of line 52 without the await: updateProgress returns at once and
\* the next call starts while the store call of the previous one is running;
\* its GetItem is served before the PutItem of the previous call, whose item
\* it then overwrites.
UpdateProgressCalledUnawaited ==
  /\ Len(recorder.progress) < MaxRecords
  /\ \E step \in {"initialize"}, status \in {"in_progress", "completed"} :
       LET rec == StepRecord(step, status, "Initializing deployment...")
       IN RecorderStep([recorder EXCEPT
            !.pc = "store",
            !.pending = rec,
            !.progress = Append(@, TimedStepRecord(rec.step, rec.status, rec.message,
                                                   recorder.now))])

\* deployment.ts:48-52: updateProgress is called; the record is stamped and
\* pushed, and updateTenantDeploymentStep is called.
UpdateProgressCalled ==
  /\ recorder.pc = "ready"
  /\ Len(recorder.progress) < MaxRecords
  /\ \E step \in {"initialize"}, status \in {"in_progress", "completed"} :
       LET rec == StepRecord(step, status, "Initializing deployment...")
       IN RecorderStep([recorder EXCEPT
            !.pc = "store",
            !.pending = rec,
            !.progress = Append(@, TimedStepRecord(rec.step, rec.status, rec.message,
                                                   recorder.now))])

\* part_005:508-520: the timestamp is taken and the item is read.
UpdateTenantDeploymentStepGets ==
  /\ recorder.pc = "store"
  /\ RecorderStep([recorder EXCEPT !.pc = "put", !.stamp = recorder.now,
                                   !.read = recorder.steps])

\* part_005:521-549: the step is appended to the list that was read and the
\* item is put.
UpdateTenantDeploymentStepPuts ==
  /\ recorder.pc = "put"
  /\ RecorderStep([recorder EXCEPT
       !.pc = "ready",
       !.steps = Append(recorder.read,
                        TimedStepRecord(recorder.pending.step, recorder.pending.status,
                                        recorder.pending.message, recorder.stamp))])

\* part_005:550-553: a store call throws; {success: false}, which
\* updateProgress does not look at.
UpdateTenantDeploymentStepThrows ==
  /\ recorder.pc \in {"store", "put"}
  /\ RecorderStep([recorder EXCEPT !.pc = "ready", !.failed = TRUE])

UpdateProgressTimed ==
  \/ ClockTicks
  \/ UpdateProgressCalled
  \/ UpdateTenantDeploymentStepGets
  \/ UpdateTenantDeploymentStepPuts
  \/ UpdateTenantDeploymentStepThrows

\* ------------------------------------------------------------------- specs
BeforeApply(d) ==
  \/ CreateTenantDeployment(d)
  \/ InitializeBegin(d) \/ InitializeEnd(d)
  \/ ChangesetBegin(d) \/ ChangesetFailed(d) \/ ChangesetCreated(d)
  \/ ComponentBegin(d) \/ ComponentFailed(d) \/ ComponentCreated(d)
  \/ WorkspaceBegin(d) \/ WorkspaceFailed(d) \/ WorkspaceCreated(d)
  \/ ApplyBegin(d)

ApplyEnd(d) == ApplyFailed(d) \/ ApplyCompleted(d)

AfterApply(d) ==
  \/ WorkspaceExtractionBegin(d) \/ WorkspaceExtracted(d) \/ WorkspaceExtractionFailed(d)
  \/ AwsExtractionBegin(d) \/ AwsAccountIdFound(d) \/ AwsAccountIdNotFound(d)
  \/ AwsExtractionThrew(d)
  \/ DataStorageBegin(d) \/ DataStored(d) \/ DataStorageFailed(d)
  \/ StackSetBegin(d) \/ StackSetCreated(d) \/ StackSetFailed(d)
  \/ VpcTemplateBegin(d) \/ VpcTemplateRan(d) \/ VpcTemplateRestore(d) \/ VpcTemplateThrew(d)
  \/ Complete(d)

\* deployTenant with applyChangeSet taken as one call that resolves.
DeployTenant(d) ==
  \/ BeforeApply(d)
  \/ ApplyChangeSetResolves(d)
  \/ ApplyEnd(d)
  \/ AfterApply(d)

\* ------------------------------------------------- disableComponentActions
\* The largest list of actions the control plane returns.
MaxActions == 2

HoldComponents == {"c1", "c2"}

ActionKinds == {"Create", "Refresh"}

\* An action of the list; its id is its place in the list.
ListedActions == [componentId : HoldComponents, kind : ActionKinds]

ActionLists == UNION {[1..n -> ListedActions] : n \in 0..MaxActions}

\* component.ts:130-132: the ids of the actions of the component whose kind is
\* one of actionNames, in the order of the list.
TargetActions(actions, componentId, actionNames) ==
  SelectSeq([i \in 1..Len(actions) |-> i],
            LAMBDA i : actions[i].componentId = componentId
                       /\ actions[i].kind \in actionNames)

IdleHold ==
  [pc |-> "idle", componentId |-> "", actionNames |-> {}, actions |-> <<>>,
   targets |-> <<>>, next |-> 1, attempted |-> {}, held |-> {}, warned |-> {},
   result |-> ServiceResult(FALSE, "")]

HoldStep(h) ==
  /\ hold' = h
  /\ UNCHANGED <<pc, progress, changeSetId, workspaceData, awsAccountId, originalToken,
                 applyResult, result, env, envAtBoot, deploymentProgress, tenants,
                 faultsLeft, call, extraction, recorder, accountPoll>>

\* component.ts:114-120: the call and its GET of the change set's actions.
DisableComponentActionsCalled ==
  /\ hold.pc = "idle"
  /\ \E c \in HoldComponents, names \in SUBSET ActionKinds :
       HoldStep([IdleHold EXCEPT !.pc = "list", !.componentId = c, !.actionNames = names])

\* component.ts:122-125, 162-164: the GET is answered with an error status, or
\* is not answered; the throw is caught and returned.
ListActionsFails ==
  /\ hold.pc = "list"
  /\ \E e \in Errors :
       HoldStep([hold EXCEPT !.pc = "returned", !.result = ServiceResult(FALSE, e)])

\* component.ts:127-145: the list is filtered; with nothing to hold the call
\* returns success, otherwise the loop starts at the first target.
ListActionsAnswers ==
  /\ hold.pc = "list"
  /\ \E actions \in ActionLists :
       LET targets == TargetActions(actions, hold.componentId, hold.actionNames)
       IN HoldStep(IF Len(targets) = 0
                     THEN [hold EXCEPT !.pc = "returned", !.actions = actions,
                                       !.result = ServiceResult(TRUE, "")]
                     ELSE [hold EXCEPT !.pc = "hold", !.actions = actions,
                                       !.targets = targets, !.next = 1])

\* component.ts:147, 161: the loop moves to the next target, or ends and the
\* call returns success.
NextTarget(h) ==
  IF h.next < Len(h.targets)
    THEN [h EXCEPT !.next = @ + 1]
    ELSE [h EXCEPT !.pc = "returned", !.next = @ + 1, !.result = ServiceResult(TRUE, "")]

\* component.ts:148-151, 158: put_on_hold is answered 2xx.
PutOnHoldSucceeds ==
  /\ hold.pc = "hold"
  /\ LET id == hold.targets[hold.next]
     IN HoldStep(NextTarget([hold EXCEPT !.attempted = @ \cup {id},
                                         !.held = @ \cup {id}]))

\* component.ts:153-157: put_on_hold is answered with an error status; a
\* warning is logged and the loop continues.
PutOnHoldRefused ==
  /\ hold.pc = "hold"
  /\ LET id == hold.targets[hold.next]
     IN HoldStep(NextTarget([hold EXCEPT !.attempted = @ \cup {id},
                                         !.warned = @ \cup {id}]))

\* component.ts:148, 162-164: the put_on_hold request itself fails (fetch
\* rejects); the rejection leaves the loop and is caught by the catch of the
\* whole function.
PutOnHoldThrows ==
  /\ hold.pc = "hold"
  /\ \E e \in Errors :
       LET id == hold.targets[hold.next]
       IN HoldStep([hold EXCEPT !.pc = "returned", !.attempted = @ \cup {id},
                                !.result = ServiceResult(FALSE, e)])

\* The state after the server has started: nothing requested, SI_API_TOKEN one
\* of tokens, and budget audit-table calls that may fail.
InitState(budget, tokens) ==
  /\ pc = [d \in Deployments |-> "idle"]
  /\ progress = [d \in Deployments |-> <<>>]
  /\ changeSetId = [d \in Deployments |-> NoChangeSet]
  /\ workspaceData = [d \in Deployments |-> NoWorkspaceData]
  /\ awsAccountId = [d \in Deployments |-> NoAccountId]
  /\ originalToken = [d \in Deployments |-> Unset]
  /\ applyResult = [d \in Deployments |-> NoCall]
  /\ result = [d \in Deployments |-> NoResult]
  /\ env \in tokens
  /\ envAtBoot = env
  /\ deploymentProgress = EmptyMap
  /\ tenants = EmptyMap
  /\ faultsLeft = budget
  /\ call = IdleCall
  /\ recorder = IdleRecorder
  /\ accountPoll = IdleAccountPoll
  /\ hold = IdleHold
  /\ extraction = IdleExtraction

Init == InitState(MaxStoreFaults, {Unset, RootToken})

\* One start request, from the request to the cleanup of its map entry.
Next ==
  \/ StartDeployment(1)
  \/ StartLookup(1)
  \/ DeployTenant(1)
  \/ DeploymentSettled(1)
  \/ CleanUp(1)

Spec == Init /\ [][Next]_vars

\* The same, with awaited calls that may reject unexpectedly.
NextUnexpected ==
  \/ Next
  \/ UnexpectedException(1)

SpecUnexpected == Init /\ [][NextUnexpected]_vars

\* NumDeployments start requests in flight together, in a process started with
\* the operator's SI_API_TOKEN, until every deployment has settled.
InitConcurrent == InitState(MaxStoreFaults, {RootToken})

NextConcurrent ==
  \E d \in Deployments :
    \/ StartDeployment(d)
    \/ StartLookup(d)
    \/ DeployTenant(d)
    \/ DeploymentSettled(d)

SpecConcurrent == InitConcurrent /\ [][NextConcurrent]_vars

\* One applyChangeSet call in detail, with a reliable audit table: a call from
\* outside the pipeline, or else the call of one deployment, which is followed
\* up to the end of its apply step.
InitApply == InitState(0, {RootToken})

NextApply ==
  \/ call.pc = "idle" /\ StartDeployment(1)
  \/ StartLookup(1)
  \/ BeforeApply(1)
  \/ ApplyChangeSet(1)
  \/ ApplyEnd(1)

SpecApply == InitApply /\ [][NextApply]_vars

\* One extractTokenWithPolling call in detail.
InitExtract == InitState(0, {RootToken})

NextExtract == ExtractTokenWithPolling

SpecExtract == InitExtract /\ [][NextExtract]_vars

\* One applyChangeSet call with timeoutSeconds = 30 against a control plane that
\* answers forceApply with 428 for the first 20 s.
InitOutage == InitState(0, {RootToken})

NextOutage ==
  \/ ApplyChangeSetCalledInOutage
  \/ ForceApplyInOutage
  \/ RetryTimerFires
  \/ MergeStatusDrained \/ MergeStatusRunning \/ MergeStatusThrows \/ PollTimerFires

SpecOutage == InitOutage /\ [][NextOutage]_vars

\* One deployment with a reliable audit table, followed up to the start of its
\* data-storage step, with the account-id poll of step 7 in detail.
InitAccount == InitState(0, {RootToken})

NextAccount ==
  \/ StartDeployment(1)
  \/ StartLookup(1)
  \/ BeforeApply(1)
  \/ ApplyChangeSetResolves(1)
  \/ ApplyEnd(1)
  \/ WorkspaceExtractionBegin(1) \/ WorkspaceExtracted(1) \/ WorkspaceExtractionFailed(1)
  \/ AwsExtractionBegin(1)
  \/ AccountPoll(1)
  \/ AwsExtractionEnd(1)
  \/ DataStorageBegin(1)

SpecAccount == InitAccount /\ [][NextAccount]_vars

\* One deployment, with a reliable audit table, against a control plane that is
\* stuck: forceApply is always answered 428, mergeStatus always shows running
\* actions, and the account id never appears; the workspace token appears at
\* some probe or never.  Each step starts when the frame of the previous
\* step's call is gone.
InitStuck == InitState(0, {RootToken})

NextStuck ==
  \/ StartDeployment(1)
  \/ StartLookup(1)
  \/ BeforeApply(1)
  \/ ApplyChangeSetCalled(1)
  \/ ForceApply428 \/ RetryTimerFires \/ MergeStatusRunning \/ PollTimerFires
  \/ ApplyCompleted(1)
  \/ CallDropped(1)
  \/ call.pc = "idle" /\ WorkspaceExtractionBegin(1)
  \/ ExtractTokenWithPollingCalledBy(1)
  \/ ProbeFindsToken \/ ProbeFindsNoToken \/ ExtractTimerFires
  \/ WorkspaceExtractionEnd(1)
  \/ ExtractionDropped(1)
  \/ extraction.pc = "idle" /\ AwsExtractionBegin(1)
  \/ AccountPollCalled(1)
  \/ FetchFindsNoAccountId \/ AccountPollTimerFires
  \/ accountPoll.pc = "ended" /\ AwsAccountIdNotFound(1)
  \/ AccountPollDropped(1)
  \/ accountPoll.pc = "idle" /\ DataStorageBegin(1)
  \/ DataStored(1) \/ DataStorageFailed(1)
  \/ StackSetBegin(1)
  \/ VpcTemplateBegin(1) \/ VpcTemplateRan(1) \/ VpcTemplateRestore(1) \/ VpcTemplateThrew(1)
  \/ Complete(1)
  \/ DeploymentSettled(1)

\* Timers fire and every request is answered.
SpecStuck == InitStuck /\ [][NextStuck]_vars /\ WF_vars(NextStuck)

\* One disableComponentActions call.
InitHold == InitState(0, {RootToken})

NextHold ==
  \/ DisableComponentActionsCalled
  \/ ListActionsFails \/ ListActionsAnswers
  \/ PutOnHoldSucceeds \/ PutOnHoldRefused \/ PutOnHoldThrows

SpecHold == InitHold /\ [][NextHold]_vars

\* The updateProgress calls of one deployment with their timestamps.
InitRecorder == InitState(0, {RootToken})

NextRecorder == UpdateProgressTimed

SpecRecorder == InitRecorder /\ [][NextRecorder]_vars

\* ------------------------------------------------------------------ claims
\* The step names of the pipeline, in pipeline order (deployment.ts:67-306).
PipelineOrder ==
  <<"initialize", "changeset", "component", "workspace", "apply",
    "workspace-extraction", "aws-extraction", "data-storage", "stackset-creation",
    "vpc-template", "complete">>

StepNames(log) == [i \in 1..Len(log) |-> log[i].step]

RECURSIVE Collapse(_)
\* A sequence with its consecutive duplicates collapsed.
Collapse(s) ==
  IF Len(s) <= 1 THEN s
  ELSE IF s[1] = s[2] THEN Collapse(Tail(s))
  ELSE <<s[1]>> \o Collapse(Tail(s))

Last(s) == s[Len(s)]

Started(d) == pc[d] \notin {"idle", "rejected", "unconfigured", "unavailable", "lookup"}

Returned(d) == result[d].returned

\* C1: for every run of deployTenant that returns success:true, the step names
\* of the progress log, consecutive duplicates collapsed, are exactly the
\* pipeline order; no record of a step comes after a record of a later step.
C1_SuccessfulRunFollowsPipelineOrder ==
  \A d \in Deployments :
    (Returned(d) /\ result[d].success) =>
      Collapse(StepNames(progress[d])) = PipelineOrder

\* A run has returned success:true.
C1_Witness == \E d \in Deployments : Returned(d) /\ result[d].success

\* The steps whose failure the pipeline is said to survive: the
\* downstream-infrastructure steps.
DownstreamSteps == {"stackset-creation", "vpc-template"}

\* C2: whenever a record with status failed is appended for a step other than
\* the downstream-infrastructure step, deployTenant halts: that record is the
\* last of the log and the call has returned success:false.
C2_FailedRecordHalts ==
  \A d \in Deployments :
    \A i \in 1..Len(progress[d]) :
      (progress[d][i].status = "failed" /\ progress[d][i].step \notin DownstreamSteps) =>
        /\ i = Len(progress[d])
        /\ Returned(d)
        /\ ~result[d].success

\* C3: if creating the AWS account component fails, the log ends with
\* (component, failed), nothing is appended after it, the result has
\* success=false and the durable Deployment status is failed.
C3_ComponentFailureHalts ==
  \A d \in Deployments :
    (\E i \in 1..Len(progress[d]) :
        progress[d][i].step = "component" /\ progress[d][i].status = "failed") =>
      /\ Last(progress[d]).step = "component"
      /\ Last(progress[d]).status = "failed"
      /\ \A i \in 1..Len(progress[d]) :
           progress[d][i].step \in {"initialize", "changeset", "component"}
      /\ Returned(d)
      /\ ~result[d].success
      /\ GetTenantDeployment(SvcId(d)).status = "failed"

\* C4, its final state: once a started deployment has terminated (deployTenant
\* has resolved and the then-callback has run), the progress-map entry is
\* completed and the durable Deployment record has status completed or failed.
C4_TerminatedDeploymentIsTerminal ==
  \A d \in Deployments :
    pc[d] = "done" =>
      /\ GetProgress(MainId(d)).completed
      /\ GetTenantDeployment(SvcId(d)).status \in {"completed", "failed"}

\* C5: once getProgress reports completed=true for the deploymentId the start
\* operation returned, getTenantDeployment of that same id returns a Deployment
\* whose step list equals the progress list getProgress returned.
C5_DurableStepsEqualProgress ==
  \A d \in Deployments :
    (GetProgress(MainId(d)).success /\ GetProgress(MainId(d)).completed) =>
      /\ GetTenantDeployment(MainId(d)).found
      /\ GetTenantDeployment(MainId(d)).steps = GetProgress(MainId(d)).progress

\* C6: two deployments started concurrently have distinct deploymentIds, and
\* under every interleaving the in-memory progress list and the durable step
\* list of each hold exactly the records its own pipeline produced, in order.
C6_ConcurrentLogsAreSeparateAndExact ==
  \A d1, d2 \in Deployments :
    (d1 # d2 /\ Started(d1) /\ Started(d2)) =>
      /\ MainId(d1) # MainId(d2)
      /\ SvcId(d1) # SvcId(d2)
      /\ MainId(d1) \in DOMAIN deploymentProgress =>
           deploymentProgress[MainId(d1)].progress = progress[d1]
      /\ GetTenantDeployment(SvcId(d1)).steps = progress[d1]

\* C7: while the template runner executes for deployment d, the process-wide
\* SI_API_TOKEN is d's own workspace token.
C7_TemplateRunSeesOwnToken ==
  \A d \in Deployments :
    pc[d] = "vpc-template_call" => env = WorkspaceToken(d)

\* Deployment d is past its vpc-template step, or has ended before it.
VpcTemplateOver(d) ==
  pc[d] \in {"complete", "returned", "done", "cleaned", "rejected", "unconfigured",
            "unavailable"}

\* C8: once every deployment has finished its vpc-template step, SI_API_TOKEN
\* has the value it had before any deployment started.
C8_TokenRestored ==
  (\A d \in Deployments : VpcTemplateOver(d)) => env = envAtBoot

\* The commit loop of the call is over and every forceApply answer was a 428.
Only428Answered ==
  /\ call.pc \in {"mergeStatus", "poll_wait", "returned"}
  /\ call.forceApplyCalls >= 1
  /\ call.only428

\* C9: when every forceApply answers 428 until the window is used up,
\* applyChangeSet does not report a failure.  It sends no forceApply after the
\* give-up of line 121, and it leaves the loop only through that give-up, with
\* 5 s or less remaining; with component ids it goes on to the drain poll; it
\* returns {success: true}; and deployTenant records (apply, completed) and
\* goes on to workspace-extraction.
C9_Always428StillSucceeds ==
  /\ call.pc \in {"forceApply", "retry_wait"} => call.callsAtGiveUp = 0
  /\ Only428Answered =>
        /\ call.callsAtGiveUp = call.forceApplyCalls
        /\ call.timeoutSeconds - call.elapsed <= GiveUpMargin
        /\ call.monitored => call.poll # "none"
        /\ call.pc = "returned" => call.result = ServiceResult(TRUE, NoError)
        /\ \A d \in Deployments :
              (call.pc = "returned" /\ call.caller = DeployTenantCaller(d)
                 /\ pc[d] # "apply_call")
              => /\ pc[d] = "workspace-extraction"
                 /\ Last(progress[d]).step = "apply"
                 /\ Last(progress[d]).status = "completed"
                 /\ ~result[d].returned

C9_Witness ==
  /\ Only428Answered
  /\ call.caller = DeployTenantCaller(1)
  /\ call.poll \in {"drained", "error", "timeout"}
  /\ call.forceApplyCalls > 1
  /\ pc[1] = "workspace-extraction"

\* C10: with a forceApply that always answers 428, the attempts are 5 s apart,
\* retrying stops once 5 s or less remain, and after that exactly one more
\* forceApply is sent before the call moves on.
C10_OneFinalCommitAfterGivingUp ==
  /\ call.forceApplyCalls > 1 => call.retryGap = RetryDelay
  /\ Only428Answered =>
        /\ call.callsAtGiveUp > 0
        /\ call.timeoutSeconds - call.elapsed <= GiveUpMargin
        /\ call.forceApplyCalls = call.callsAtGiveUp + 1

\* forceApply has failed with an error that is not a 428.
HardCommitError == call.thrown # NoError

\* C11: when forceApply fails with a status other than 428, applyChangeSet has
\* returned {success: false} with that error's message and has requested no
\* merge status; from then on the call does nothing more (no forceApply, no
\* mergeStatus); and deployTenant, once it has the result, has recorded
\* (apply, failed) as its last record and returned success:false with the error.
C11_HardCommitErrorAborts ==
  /\ [](HardCommitError =>
          /\ call.pc = "returned"
          /\ call.result = ServiceResult(FALSE, call.thrown)
          /\ call.poll = "none"
          /\ \A d \in Deployments :
                (call.caller = DeployTenantCaller(d) /\ pc[d] # "apply_call")
                => /\ pc[d] = "returned"
                   /\ Last(progress[d]) =
                        StepRecord("apply", "failed",
                                   Msg("Failed to apply changeset: ", call.thrown))
                   /\ ~result[d].success
                   /\ result[d].error = call.thrown)
  /\ [][HardCommitError => call' = call]_vars

C11_Witness ==
  /\ HardCommitError
  /\ call.forceApplyCalls > 1
  /\ call.caller = DeployTenantCaller(1)
  /\ pc[1] = "returned"

\* The applyChangeSet call ended in a soft timeout: the retry loop gave up on
\* 428 (line 121), or the drain poll ran its 60 s with actions still pending.
SoftTimedOut == call.callsAtGiveUp > 0 \/ call.poll = "timeout"

\* The message of the apply step's completed record (deployment.ts:148).
AppliedMessage == "Changeset applied successfully - both component actions completed"

\* C12: a soft timeout is recorded as a completed step, never a failed one,
\* with a warning message that differs from the message of a clean success:
\* the apply step's completed record after a soft timeout of applyChangeSet,
\* and the aws-extraction record when the account id was not found.
C12_SoftTimeoutRecordedAsWarning ==
  \A d \in Deployments :
    /\ (call.caller = DeployTenantCaller(d) /\ call.pc = "returned" /\ SoftTimedOut
          /\ pc[d] = "workspace-extraction")
       => /\ Last(progress[d]).step = "apply"
          /\ Last(progress[d]).status = "completed"
          /\ Last(progress[d]).message # AppliedMessage
    /\ \A i \in 1..Len(progress[d]) :
         (progress[d][i].step = "aws-extraction" /\ progress[d][i].status # "in_progress")
         => /\ progress[d][i].status = "completed"
            /\ awsAccountId[d] = NoAccountId =>
                 progress[d][i].message # Msg("AWS Account ID extracted: ", awsAccountId[d])

\* C13: after the commit phase, with component ids the call polls mergeStatus:
\* a poll is requested only while less than 60 s of polling have passed, and 2 s
\* after the previous answer; the first answer without a monitored action
\* returns {success: true} and nothing is requested after it; when the 60 s run
\* out, the call returns {success: true} as well.  Without component ids no
\* mergeStatus is ever requested.
C13_DrainPoll ==
  /\ [](/\ ~call.monitored => call.poll = "none" /\ call.pc \notin {"mergeStatus", "poll_wait"}
        /\ call.poll = "drained" =>
             call.pc = "returned" /\ call.result = ServiceResult(TRUE, NoError)
        /\ call.poll = "timeout" =>
             /\ call.pc = "returned" /\ call.result = ServiceResult(TRUE, NoError)
             /\ call.pollElapsed >= PollTimeout
        /\ (call.monitored /\ call.pc = "returned" /\ call.result.success) =>
             call.poll # "none")
  /\ [][/\ (call.pc = "poll_wait" /\ call'.pc = "mergeStatus") =>
             /\ call'.pollElapsed = call.pollElapsed + PollInterval
             /\ call'.pollElapsed < PollTimeout
        /\ (call.pc # "mergeStatus" /\ call'.pc = "mergeStatus") =>
             call'.pollElapsed < PollTimeout
        /\ call.poll \in {"drained", "timeout"} => call' = call]_vars

C13_Witness ==
  /\ call.pc = "returned"
  /\ call.poll = "timeout"
  /\ call.pollElapsed >= PollTimeout

\* The two timeout failures of extractTokenWithPolling (lines 110-113, 120-123).
TimeoutErrors == {<<"Timeout waiting for initialApiToken">>, <<"Timeout reached">>}

TimedOut(x) == x.pc = "returned" /\ ~x.result.success /\ x.result.error \in TimeoutErrors

\* C14: extractTokenWithPolling returns success at the first probe that finds
\* the token and probes no more after it has returned; a timeout failure is
\* returned only when the whole timeout has elapsed, never earlier; and a
\* probe follows the previous answer by 5 s.
C14_PollingStopsAtFirstTokenOrFullTimeout ==
  /\ [](/\ extraction.answer = "token" =>
             /\ extraction.pc = "returned"
             /\ extraction.result = ExtractToken(extraction.component)
             /\ extraction.result.success
        /\ TimedOut(extraction) =>
             /\ extraction.elapsed >= extraction.timeoutSeconds
             /\ extraction.answer # "token")
  /\ [][/\ extraction.pc = "returned" => extraction' = extraction
        /\ (extraction.pc = "wait" /\ extraction'.pc = "probe") =>
             extraction'.elapsed = extraction.elapsed + ExtractDelay]_vars

C14_Witness ==
  /\ TimedOut(extraction)
  /\ extraction.answer = "absent"
  /\ extraction.probes > 1

\* C15: the answer 'not yet present' keeps the poll going, and every other
\* failed probe (non-OK response, no component, thrown error) is hard: the
\* call has returned with the error of that probe, without a wait or another
\* probe after it.
C15_OtherProbeFailuresAreHard ==
  /\ extraction.answer \in {"http", "no-component", "thrown"} =>
       /\ extraction.pc = "returned"
       /\ ~extraction.result.success
       /\ extraction.result.error \notin TimeoutErrors
  /\ (extraction.answer = "absent" /\ extraction.pc = "returned") =>
       TimedOut(extraction)

\* deployTenant of request d is past its createTenantDeployment call.
PastCreate(d) == pc[d] \notin {"idle", "rejected", "unconfigured", "unavailable", "lookup", "create"}

\* C16: the Deployment record is created with status started and an empty step
\* list, and deployTenant goes on only when it is written: with no record
\* written (createTenantDeployment failed) it appends no StepRecord and opens
\* no change set.
C16_ProceedsOnlyWithDurableRecord ==
  \A d \in Deployments :
    /\ (pc[d] = "initialize" /\ SvcId(d) \in DOMAIN tenants) =>
         /\ tenants[SvcId(d)].status = "started"
         /\ tenants[SvcId(d)].steps = <<>>
    /\ (PastCreate(d) /\ SvcId(d) \notin DOMAIN tenants) =>
         /\ progress[d] = <<>>
         /\ changeSetId[d] = NoChangeSet

\* C17: the status of every durable Deployment record is started, completed or
\* failed.
C17_DeploymentStatusDomain ==
  \A id \in DOMAIN tenants : tenants[id].status \in {"started", "completed", "failed"}

\* C18: a durable Deployment has an endTime only if its step list holds a
\* failed record or the completed record of the terminal step complete.
C18_EndTimeOnlyAtTheEnd ==
  \A id \in DOMAIN tenants :
    tenants[id].endTime =>
      \E i \in 1..Len(tenants[id].steps) :
        \/ tenants[id].steps[i].status = "failed"
        \/ /\ tenants[id].steps[i].step = "complete"
           /\ tenants[id].steps[i].status = "completed"

\* C19: the currentStep of every durable Deployment that has steps is the step
\* name of the last element of its step list.
C19_CurrentStepIsLastStep ==
  \A id \in DOMAIN tenants :
    tenants[id].steps # <<>> => tenants[id].currentStep = Last(tenants[id].steps).step

\* A record with several steps, one of whose appends had failed.
C19_Witness ==
  \E d \in Deployments :
    /\ SvcId(d) \in DOMAIN tenants
    /\ Len(tenants[SvcId(d)].steps) > 2
    /\ Len(tenants[SvcId(d)].steps) < Len(progress[d])

\* The records written for a step that is passed over for lack of data
\* (deployment.ts:251, 271, 302).
SkipRecords ==
  {StepRecord("data-storage", "completed", "No workspace data available to store"),
   StepRecord("stackset-creation", "completed",
              "StackSet creation skipped - missing required data"),
   StepRecord("vpc-template", "completed",
              "VPC template execution skipped - missing workspace token")}

\* Every in_progress record of log but the last is followed directly by the
\* completed or failed record of its step, and no step has two in_progress
\* records or two completed / failed records.
OneResultPerAttempt(log) ==
  \A i \in 1..Len(log) :
    /\ (log[i].status = "in_progress" /\ i < Len(log)) =>
         /\ log[i + 1].step = log[i].step
         /\ log[i + 1].status \in {"completed", "failed"}
    /\ \A j \in 1..Len(log) :
         (j # i /\ log[j].step = log[i].step) =>
           (log[j].status = "in_progress") # (log[i].status = "in_progress")

\* Record i of log comes directly after the in_progress record of its step.
Announced(log, i) ==
  /\ i > 1
  /\ log[i - 1].step = log[i].step
  /\ log[i - 1].status = "in_progress"

\* C20, as stated: every step has one in_progress record followed directly by
\* one completed or failed record, and no completed or failed record is
\* without its in_progress record before it.
C20_EveryResultAnnounced ==
  \A d \in Deployments :
    /\ OneResultPerAttempt(progress[d])
    /\ \A i \in 1..Len(progress[d]) :
         progress[d][i].status # "in_progress" => Announced(progress[d], i)

\* C20, amended: the same, except that the record of the terminal step complete
\* and the record of a step passed over for lack of data are completed records
\* with no in_progress record before them; a failed record always has one.
C20_EveryAttemptAnnounced ==
  \A d \in Deployments :
    /\ OneResultPerAttempt(progress[d])
    /\ \A i \in 1..Len(progress[d]) :
         progress[d][i].status # "in_progress" =>
           \/ Announced(progress[d], i)
           \/ /\ progress[d][i].status = "completed"
              /\ progress[d][i].step = "complete" \/ progress[d][i] \in SkipRecords

\* A run that passed a step over and reached the end.
C20_Witness ==
  \E d \in Deployments :
    /\ Returned(d) /\ result[d].success
    /\ \E i \in 1..Len(progress[d]) : progress[d][i] \in SkipRecords
    /\ \E i \in 1..Len(progress[d]) : progress[d][i].status = "failed"

\* The positions of deployTenant inside step k of the pipeline: before the
\* step's first record, and at the awaits of the step.
StepLabels(k) ==
  {PipelineOrder[k], PipelineOrder[k] \o "_run", PipelineOrder[k] \o "_call",
   PipelineOrder[k] \o "_finally"}

StepIndex(step) == CHOOSE k \in 1..Len(PipelineOrder) : PipelineOrder[k] = step

HasRecord(log, step) == \E i \in 1..Len(log) : log[i].step = step

\* C21: a StepRecord exists for a step if and only if the pipeline reached it.
\* While deployTenant is in step k, every earlier step has a record and no
\* later step has one, and step k has one as soon as its first record is
\* written; a step passed over has its completed record, so a run that has
\* returned success:true has a record for every pipeline step.
C21_RecordIffStepReached ==
  \A d \in Deployments :
    /\ \A k \in 1..Len(PipelineOrder) :
         pc[d] \in StepLabels(k) =>
           /\ \A j \in 1..Len(PipelineOrder) :
                /\ j < k => HasRecord(progress[d], PipelineOrder[j])
                /\ j > k => ~HasRecord(progress[d], PipelineOrder[j])
           /\ HasRecord(progress[d], PipelineOrder[k]) <=> pc[d] # PipelineOrder[k]
    /\ \A i \in 1..Len(progress[d]) :
         /\ progress[d][i].step \in {PipelineOrder[k] : k \in 1..Len(PipelineOrder)}
         /\ (Returned(d) /\ ~result[d].success) =>
              StepIndex(progress[d][i].step) <= StepIndex(Last(progress[d]).step)
    /\ (Returned(d) /\ result[d].success) =>
         \A k \in 1..Len(PipelineOrder) : HasRecord(progress[d], PipelineOrder[k])

\* A successful run in which stackset-creation was passed over.
C21_Witness ==
  \E d \in Deployments :
    /\ Returned(d) /\ result[d].success
    /\ StepRecord("stackset-creation", "completed",
                  "StackSet creation skipped - missing required data")
         \in {progress[d][i] : i \in 1..Len(progress[d])}

HasDownstreamFailure(log) ==
  \E i \in 1..Len(log) : log[i].step \in DownstreamSteps /\ log[i].status = "failed"

\* C22: a failure of a downstream-infrastructure step (stackset-creation,
\* vpc-template) is recorded and does not fail the deployment: deployTenant
\* does not return on it, and when it has returned the last record is
\* (complete, completed) and the result is success:true.
C22_DownstreamFailureIsNotFatal ==
  \A d \in Deployments :
    HasDownstreamFailure(progress[d]) =>
      /\ pc[d] \in {"vpc-template", "vpc-template_call", "vpc-template_finally",
                     "complete", "returned", "done", "cleaned"}
      /\ Returned(d) =>
           /\ result[d].success
           /\ Last(progress[d]).step = "complete"
           /\ Last(progress[d]).status = "completed"

\* A run in which both downstream steps failed has returned.
C22_Witness ==
  \E d \in Deployments :
    /\ Returned(d)
    /\ \A step \in DownstreamSteps :
         \E i \in 1..Len(progress[d]) :
           progress[d][i].step = step /\ progress[d][i].status = "failed"

\* The prefix deployTenant puts before the upstream message in the failed
\* record of a step (deployment.ts:77, 112, 136, 145, 174).
FailurePrefix(step) ==
  CASE step = "changeset" -> "Failed to create change set: "
    [] step = "component" -> "Failed to create component: "
    [] step = "workspace" -> "Failed to create workspace component: "
    [] step = "apply" -> "Failed to apply changeset: "
    [] step = "workspace-extraction" -> "Workspace token extraction failed: "
    [] OTHER -> ""

\* The messages of a failed record of step that contain the upstream message m:
\* m after the step's prefix, once or twice.
MessagesContaining(step, m) ==
  {Msg(FailurePrefix(step), m), Msg(FailurePrefix(step), Msg(FailurePrefix(step), m))}

\* C23: when deployTenant has returned success=false after a hard error at step
\* S with upstream message m, the result's error is m, it carries the
\* changeSetId if one was opened, the log ends with (S, failed) and a message
\* containing m; and once the then-callback has run, getProgress reports
\* completed=true, deploymentSuccess=false, error=m and the same records.
C23_HardErrorSurfacedVerbatim ==
  \A d \in Deployments :
    (Returned(d) /\ ~result[d].success) =>
      /\ result[d].error \in Errors
      /\ result[d].changeSetId = changeSetId[d]
      /\ Last(progress[d]).status = "failed"
      /\ Last(progress[d]).message
           \in MessagesContaining(Last(progress[d]).step, result[d].error)
      /\ pc[d] = "done" =>
           /\ GetProgress(MainId(d)).completed
           /\ ~GetProgress(MainId(d)).deploymentSuccess
           /\ GetProgress(MainId(d)).error = result[d].error
           /\ GetProgress(MainId(d)).progress = progress[d]

\* C24: after an unexpected exception inside the pipeline, the log ends with a
\* failed record, deployTenant has resolved (not rejected) with success=false,
\* and the durable Deployment has status failed.
C24_UnexpectedExceptionFailsDeployment ==
  \A d \in Deployments :
    HasRecord(progress[d], "error") =>
      /\ Last(progress[d]).step = "error"
      /\ Last(progress[d]).status = "failed"
      /\ Returned(d)
      /\ ~result[d].success
      /\ GetTenantDeployment(SvcId(d)).found
      /\ GetTenantDeployment(SvcId(d)).status = "failed"

\* Everything but the position of the start handlers.
exceptPc ==
  <<progress, changeSetId, workspaceData, awsAccountId, originalToken, applyResult,
    result, env, envAtBoot, deploymentProgress, tenants, faultsLeft, call, extraction,
    recorder, accountPoll, hold>>

\* C25: a start request without configId, or with a missing or blank
\* accountName, is answered with an error at once, before the workspace-token
\* lookup, and has no effect: no map entry, no audit-table item, no record, no
\* deployTenant call, and nothing follows it.
C25_InvalidStartHasNoEffect ==
  /\ [](\A d \in Deployments :
          pc[d] = "rejected" =>
            /\ MainId(d) \notin DOMAIN deploymentProgress
            /\ ~GetTenantDeployment(SvcId(d)).found
            /\ progress[d] = <<>>
            /\ changeSetId[d] = NoChangeSet
            /\ ~Returned(d))
  /\ [][\A d \in Deployments :
          /\ (pc'[d] = "rejected" /\ pc[d] # "rejected") =>
               (pc[d] = "idle" /\ UNCHANGED exceptPc)
          /\ pc[d] = "rejected" => pc'[d] = "rejected"]_vars

\* A start request has been rejected as invalid.
C25_Witness == \E d \in Deployments : pc[d] = "rejected"

RECURSIVE StringLeq(_, _)
\* a <= b for two strings, as sequences of characters.
StringLeq(a, b) ==
  IF a = <<>> THEN TRUE
  ELSE IF b = <<>> THEN FALSE
  ELSE IF Head(a) # Head(b) THEN Head(a) < Head(b)
  ELSE StringLeq(Tail(a), Tail(b))

NonDecreasing(log) ==
  \A i, j \in 1..Len(log) : i < j => StringLeq(log[i].timestamp, log[j].timestamp)

\* C26: within one deployment the timestamps of the StepRecords are
\* non-decreasing in log order, in the in-memory progress list and in the
\* durable step list.
C26_TimestampsNonDecreasing ==
  /\ NonDecreasing(recorder.progress)
  /\ NonDecreasing(recorder.steps)

\* Two records are in both lists, the second stamped with a later time whose
\* text has one more significant digit.
C26_Witness ==
  /\ Len(recorder.progress) = 2
  /\ Len(recorder.steps) = 2
  /\ recorder.progress[1].timestamp = ToISOString(9)
  /\ recorder.steps[2].timestamp = ToISOString(10)

\* Every call deployTenant made has succeeded at once: no audit-table call
\* failed, no record is a failed one, the account id was found, and
\* deployTenant has returned success:true.
EverythingSucceeded(d) ==
  /\ Returned(d)
  /\ result[d].success
  /\ faultsLeft = MaxStoreFaults
  /\ awsAccountId[d] # NoAccountId
  /\ \A i \in 1..Len(progress[d]) : progress[d][i].status # "failed"

\* The completed records that report something that did not work.
IsWarning(rec) ==
  \/ rec \in SkipRecords
  \/ rec = StepRecord("aws-extraction", "completed", "AWS Account ID not found after polling")
  \/ \E e \in Errors :
       rec = StepRecord("aws-extraction", "completed", Msg("AWS Account extraction failed: ", e))

\* The durable status is completed, the steps are in pipeline order and no
\* completed record is a warning.
CompletedInOrderWithoutWarning(d) ==
  /\ GetTenantDeployment(SvcId(d)).status = "completed"
  /\ Collapse(StepNames(progress[d])) = PipelineOrder
  /\ \A i \in 1..Len(progress[d]) :
       progress[d][i].status = "completed" => ~IsWarning(progress[d][i])

\* C27 as stated: when every call succeeds at once, the deployment ends with
\* status completed and exactly ten StepRecords in the defined order, none of
\* them a completed record with a warning.
C27_TenStepRecords ==
  \A d \in Deployments :
    EverythingSucceeded(d) =>
      /\ CompletedInOrderWithoutWarning(d)
      /\ Len(progress[d]) = Len(PipelineOrder) - 1

\* C27: when every call succeeds at once, the deployment ends with status
\* completed and twenty-one StepRecords: an in_progress and a completed record
\* for each of the ten steps before complete, in pipeline order, then
\* (complete, completed); no completed record carries a warning.
C27_TwoRecordsPerStep ==
  \A d \in Deployments :
    EverythingSucceeded(d) =>
      /\ CompletedInOrderWithoutWarning(d)
      /\ Len(progress[d]) = 2 * (Len(PipelineOrder) - 1) + 1
      /\ \A k \in 1..(Len(PipelineOrder) - 1) :
           /\ progress[d][2 * k - 1].step = PipelineOrder[k]
           /\ progress[d][2 * k - 1].status = "in_progress"
           /\ progress[d][2 * k].step = PipelineOrder[k]
           /\ progress[d][2 * k].status = "completed"
      /\ Last(progress[d]).step = "complete"
      /\ Last(progress[d]).status = "completed"
      /\ GetTenantDeployment(SvcId(d)).steps = progress[d]

\* A run in which every call succeeded at once.
C27_Witness == \E d \in Deployments : EverythingSucceeded(d)

\* The commit loop of the call is over.
CommitLoopOver == call.pc \in {"mergeStatus", "poll_wait", "returned"}

\* C28: with timeoutSeconds = 30 and forceApply answered 428 for the first
\* 20 s, applyChangeSet retries 3 or 4 times, each retry 5 s after the 428 it
\* follows, does not give up, and its last forceApply call is the one that
\* succeeds.
C28_OutageRiddenOut ==
  /\ call.forceApplyCalls > 1 => call.retryGap = RetryDelay
  /\ call.callsAtGiveUp = 0
  /\ CommitLoopOver =>
       /\ call.forceApplyCalls - 1 \in 3..4
       /\ ~call.only428
       /\ call.thrown = NoError
       /\ call.elapsed >= OutageSeconds

\* The call has returned after the outage.
C28_Witness ==
  /\ call.pc = "returned"
  /\ call.timeoutSeconds = OutageTimeout
  /\ call.forceApplyCalls > 1
  /\ call.result = ServiceResult(TRUE, NoError)

\* C29: extractToken looks at the payload first and at resourceProps second:
\* with a token in the payload it returns that token, whatever resourceProps
\* holds; without one it returns the value of the resourceProps entry of the
\* token path; with neither it returns the 'not found' failure and no token.
C29_PayloadFirstThenResourceProps ==
  extraction.answer \in {"token", "absent"} =>
    LET component == extraction.component
        tokenProp == Find(component.resourceProps, TokenPath)
        r == extraction.probed
    IN /\ component.payload # "" => (r.success /\ r.token = component.payload)
       /\ (component.payload = "" /\ tokenProp.value # "") =>
            (r.success /\ r.token = tokenProp.value)
       /\ (component.payload = "" /\ tokenProp.value = "") =>
            (~r.success /\ r.token = "" /\ r.error = NotFoundError)

\* extractToken has answered for a component that holds a token in both places.
C29_Witness ==
  /\ extraction.answer = "token"
  /\ extraction.component.payload # ""
  /\ Find(extraction.component.resourceProps, TokenPath).value # ""

\* C30: in the log of a run, the record that reports the StackSet as created
\* and applied is not directly followed by the first record of vpc-template:
\* the seeding of the tenant workspace comes in between.
C30_SeedingBetweenStackSetAndTemplate ==
  \A d \in Deployments :
    \A i \in 1..(Len(progress[d]) - 1) :
      (/\ progress[d][i].step = "stackset-creation"
       /\ progress[d][i].status = "completed"
       /\ progress[d][i] \notin SkipRecords) =>
        progress[d][i + 1].step # "vpc-template"

\* a is b or a beginning of b.
IsPrefix(a, b) == Len(a) <= Len(b) /\ a = SubSeq(b, 1, Len(a))

\* C31: the progress log is append-only.  Every step leaves deployTenant's
\* list, and the list of the map entry while the entry exists, a prefix of
\* what it is afterwards: each snapshot the callback delivers or getProgress
\* returns is a prefix of every later one, and no record is changed or removed.
C31_ProgressLogAppendOnly ==
  [][\A d \in Deployments :
       /\ IsPrefix(progress[d], progress'[d])
       /\ (GetProgress(MainId(d)).success /\ GetProgress(MainId(d))'.success) =>
            IsPrefix(GetProgress(MainId(d)).progress, GetProgress(MainId(d))'.progress)]_vars

\* getProgress returns a log of several records after deployTenant has resolved.
C31_Witness ==
  \E d \in Deployments :
    /\ pc[d] = "done"
    /\ GetProgress(MainId(d)).success
    /\ Len(GetProgress(MainId(d)).progress) > 2

\* A log without its timestamps.
Untimed(log) == [i \in 1..Len(log) |-> StepRecord(log[i].step, log[i].status, log[i].message)]

\* C32: the appends of one deployment are serialized.  updateProgress is
\* called only while no store call of the previous record is running; the list
\* a PutItem is built from is the list as it is in the item; and while no
\* store call has thrown, after every finished append the durable step list
\* holds exactly the records appended, in call order.
C32_AppendsSerialized ==
  /\ [](/\ recorder.pc = "put" => recorder.read = recorder.steps
        /\ (recorder.pc = "ready" /\ ~recorder.failed) =>
             Untimed(recorder.steps) = Untimed(recorder.progress))
  /\ [][Len(recorder'.progress) > Len(recorder.progress) => recorder.pc = "ready"]_vars

\* Two appends have finished and both records are in the item.
C32_Witness ==
  /\ recorder.pc = "ready"
  /\ ~recorder.failed
  /\ Len(recorder.steps) = 2

\* The steps that come after workspace-extraction.
StepsAfterExtraction ==
  {"aws-extraction", "data-storage", "stackset-creation", "vpc-template", "complete"}

\* C33: the workspace token is mandatory.  When extractTokenWithPolling reports
\* a failure (the 60 s window ran out, or a probe failed hard), the log ends
\* with (workspace-extraction, failed), deployTenant has returned
\* success=false, and the log holds no record of a later step; a record of a
\* later step is only ever appended with the token in hand.
C33_TokenTimeoutIsHard ==
  \A d \in Deployments :
    /\ (\E i \in 1..Len(progress[d]) :
          progress[d][i].step = "workspace-extraction" /\ progress[d][i].status = "failed") =>
         /\ Last(progress[d]).step = "workspace-extraction"
         /\ Last(progress[d]).status = "failed"
         /\ Returned(d)
         /\ ~result[d].success
         /\ \A i \in 1..Len(progress[d]) : progress[d][i].step \notin StepsAfterExtraction
    /\ (\E i \in 1..Len(progress[d]) : progress[d][i].step \in StepsAfterExtraction) =>
         workspaceData[d] # NoWorkspaceData

\* The pipeline has halted at workspace-extraction.
C33_Witness ==
  \E d \in Deployments :
    /\ Returned(d)
    /\ Last(progress[d]) \in
         {StepRecord("workspace-extraction", "failed",
                     Msg("Workspace token extraction failed: ",
                         Msg("Workspace token extraction failed: ", e))) : e \in Errors}

\* C34: the aws-extraction step never halts the pipeline and is never recorded
\* as failed.  A failed fetch, a thrown error and a found id each end the poll
\* at once, with no further fetch; an id that stays absent ends it when 60 s
\* are over; and however the poll ended, the step's record is a completed one
\* and deployTenant goes on to data-storage.
C34_AwsExtractionNeverHalts ==
  /\ [](/\ \A i \in 1..Len(progress[1]) :
             progress[1][i].step = "aws-extraction" => progress[1][i].status # "failed"
        /\ Returned(1) => ~HasRecord(progress[1], "aws-extraction")
        /\ accountPoll.answer \in {"found", "failed", "thrown"} => accountPoll.pc = "ended"
        /\ (accountPoll.pc = "ended" /\ accountPoll.answer = "absent") =>
             accountPoll.elapsed >= AccountTimeout
        /\ (accountPoll.pc = "ended" /\ pc[1] # "aws-extraction_call") =>
             /\ pc[1] \in {"data-storage", "data-storage_call", "stackset-creation"}
             /\ \E i \in 1..Len(progress[1]) :
                  /\ progress[1][i].step = "aws-extraction"
                  /\ progress[1][i].status = "completed")
  /\ [][accountPoll.pc = "ended" => accountPoll' = accountPoll]_vars

\* A fetch failed and the pipeline is at data-storage.
C34_Witness ==
  /\ accountPoll.answer = "failed"
  /\ accountPoll.fetches > 1
  /\ pc[1] = "data-storage"
  /\ Last(progress[1]) =
       StepRecord("aws-extraction", "completed", "AWS Account ID not found after polling")

\* C35: every wait of the pipeline is bounded.  Against a control plane that
\* answers 428, 'actions running' and 'not yet present' for ever, the commit
\* retry loop and the drain poll (applyChangeSet), the token poll and the
\* account-id poll each end after a bounded number of calls, and a deployTenant
\* that was called resolves.
C35_EveryWaitIsBounded ==
  /\ [](/\ call.forceApplyCalls <= DeployTimeout \div RetryDelay + 1
        /\ call.pollElapsed <= PollTimeout + PollInterval + MaxLatency
        /\ extraction.probes <= ExtractTimeout \div ExtractDelay + 1
        /\ accountPoll.fetches <= AccountTimeout \div AccountDelay + 1)
  /\ (call.pc = "forceApply") ~> (call.pc = "returned")
  /\ (extraction.pc = "probe") ~> (extraction.pc = "returned")
  /\ (accountPoll.pc = "fetch") ~> (accountPoll.pc = "ended")
  /\ (pc[1] = "create") ~> (pc[1] = "done")

\* The account-id poll has run out of time, after the commit loop had given up
\* and the token had appeared.
C35_Witness ==
  /\ accountPoll.pc = "ended"
  /\ accountPoll.answer = "absent"
  /\ accountPoll.fetches > 1
  /\ HasRecord(progress[1], "apply")
  /\ workspaceData[1] # NoWorkspaceData

\* C36: disableComponentActions only tries to hold the listed actions of the
\* given component whose kind was asked for, and once the list has been read
\* and the loop has started, a put_on_hold that fails stops nothing: the call
\* returns success=true with every such action attempted.
C36_HoldIsBestEffort ==
  /\ hold.attempted \subseteq
       {i \in 1..Len(hold.actions) :
          /\ hold.actions[i].componentId = hold.componentId
          /\ hold.actions[i].kind \in hold.actionNames}
  /\ (hold.pc = "returned" /\ Len(hold.targets) > 0) =>
       /\ hold.result.success
       /\ hold.attempted =
            {i \in 1..Len(hold.actions) :
               /\ hold.actions[i].componentId = hold.componentId
               /\ hold.actions[i].kind \in hold.actionNames}

\* The start handler has answered with a deploymentId and the cleanup timer of
\* that deployment has not fired.
EntryExpected(d) ==
  pc[d] \notin {"idle", "rejected", "unconfigured", "unavailable", "lookup", "cleaned"}

\* C37: from the answer of start until the cleanup timer fires, getProgress
\* finds the entry of the returned deploymentId; the entry is not completed
\* while deployTenant has not returned, a completed entry stays completed for
\* as long as it is there, and the entry is only ever removed when it is
\* completed and the pipeline is over.
C37_EntryLivesUntilCleanup ==
  /\ [](\A d \in Deployments :
         /\ EntryExpected(d) => GetProgress(MainId(d)).success
         /\ (EntryExpected(d) /\ ~Returned(d)) => ~GetProgress(MainId(d)).completed
         /\ pc[d] = "done" => GetProgress(MainId(d)).completed)
  /\ [][\A d \in Deployments :
         /\ (GetProgress(MainId(d)).success /\ GetProgress(MainId(d)).completed) =>
              (GetProgress(MainId(d))'.success => GetProgress(MainId(d))'.completed)
         /\ (GetProgress(MainId(d)).success /\ ~GetProgress(MainId(d))'.success) =>
              /\ GetProgress(MainId(d)).completed
              /\ Returned(d)
              /\ pc[d] = "done"
         /\ ~GetProgress(MainId(d)).success =>
              (GetProgress(MainId(d))'.success => pc[d] = "lookup")]_vars

\* The cleanup timer has fired for a deployment that had run to its end.
C37_Witness ==
  \E d \in Deployments :
    /\ pc[d] = "cleaned"
    /\ Returned(d)
    /\ ~GetProgress(MainId(d)).success

\* C38: a pipeline that has reached data-storage holds workspace data; the
\* records 'No workspace data available to store' and 'VPC template execution
\* skipped' are never written; and a pipeline that has reached
\* stackset-creation has written the record 'StackSet creation skipped'
\* exactly if it holds no AWS account id.
C38_WorkspaceDataPresentAfterExtraction ==
  \A d \in Deployments :
    /\ HasRecord(progress[d], "data-storage") => workspaceData[d] # NoWorkspaceData
    /\ \A i \in 1..Len(progress[d]) :
         /\ progress[d][i] # StepRecord("data-storage", "completed",
                                        "No workspace data available to store")
         /\ progress[d][i] # StepRecord("vpc-template", "completed",
                "VPC template execution skipped - missing workspace token")
    /\ HasRecord(progress[d], "stackset-creation") =>
         ((\E i \in 1..Len(progress[d]) :
             progress[d][i] = StepRecord("stackset-creation", "completed",
                                "StackSet creation skipped - missing required data"))
          <=> awsAccountId[d] = NoAccountId)

\* A run has gone through data-storage and the template step with workspace
\* data and without an AWS account id.
C38_Witness ==
  \E d \in Deployments :
    /\ Returned(d)
    /\ HasRecord(progress[d], "vpc-template")
    /\ awsAccountId[d] = NoAccountId
    /\ workspaceData[d] # NoWorkspaceData

\* The steps after which the pipeline goes on when they fail.
TolerantSteps == {"data-storage", "stackset-creation", "vpc-template"}

\* C39: an error message on a durable Deployment stays as it is through every
\* later append, unless the appended record is a failed one, whose message
\* then takes its place; and once a run in which data-storage,
\* stackset-creation or vpc-template failed has returned, its durable
\* Deployment has status completed and a non-empty error.
C39_ErrorFieldSurvivesLaterAppends ==
  /\ [][\A id \in DOMAIN tenants :
         (id \in DOMAIN tenants' /\ tenants[id].error # NoError) =>
           \/ tenants'[id].error = tenants[id].error
           \/ /\ Len(tenants'[id].steps) = Len(tenants[id].steps) + 1
              /\ Last(tenants'[id].steps).status = "failed"
              /\ tenants'[id].error = Last(tenants'[id].steps).message]_vars
  /\ [](\A d \in Deployments :
         (/\ Returned(d)
          /\ result[d].success
          /\ \E i \in 1..Len(progress[d]) :
               progress[d][i].step \in TolerantSteps /\ progress[d][i].status = "failed") =>
           /\ GetTenantDeployment(SvcId(d)).found
           /\ GetTenantDeployment(SvcId(d)).status = "completed"
           /\ GetTenantDeployment(SvcId(d)).error # NoError)

\* C40: when a mergeStatus request of the drain poll fails, applyChangeSet has
\* returned {success: true} with that answer and requests nothing more; called
\* by deployTenant, the apply step then ends with its completed record and the
\* pipeline goes on.
C40_MergeStatusFailureEndsPollQuietly ==
  /\ [](/\ call.poll = "error" =>
             call.pc = "returned" /\ call.result = ServiceResult(TRUE, NoError)
        /\ \A d \in Deployments :
             (/\ call.poll = "error"
              /\ call.caller = DeployTenantCaller(d)
              /\ pc[d] # "apply_call") =>
               /\ Last(progress[d]) = StepRecord("apply", "completed",
                     "Changeset applied successfully - both component actions completed")
               /\ ~Returned(d))
  /\ [][call.poll = "error" => call' = call]_vars
  /\ [][(call.pc = "mergeStatus" /\ call'.poll = "error") =>
          /\ call'.pc = "returned"
          /\ call'.forceApplyCalls = call.forceApplyCalls]_vars

\* deployTenant has taken the answer of an applyChangeSet whose drain poll
\* ended with a failed mergeStatus request.
C40_Witness ==
  /\ call.poll = "error"
  /\ call.caller = DeployTenantCaller(1)
  /\ pc[1] = "workspace-extraction"
  /\ HasRecord(progress[1], "apply")

====
